---- MODULE Spec2Model ----
(***************************************************************************)
(* Migration orchestration core of APImigrationTool.                       *)
(*                                                                         *)
(*   LockManager  (src/src/state/lock_manager.py)  -- SpecLock,            *)
(*                                       SpecBlocking, SpecCleanup         *)
(*   StateTracker (src/src/state/state_tracker.py) -- SpecState,           *)
(*                                                     SpecLookup          *)
(*   StateTracker calls made under LockManager.lock -- SpecSerialized      *)
(*   StateTracker calls made without the lock       -- SpecUnlocked        *)
(*   BatchProcessor (src/src/discovery/batch_processor.py)                 *)
(*                                    -- SpecDiscovery, SpecDeadline       *)
(*   FilterEngine (src/src/config/filter_engine.py) -- SpecFilter          *)
(*   RiskScorer   (src/src/inventory/risk_scorer.py) -- SpecRisk           *)
(*                                                                         *)
(* The lock manager talks to a Redis store.  Every Redis command is one    *)
(* atomic step; a LockManager method that issues several commands is a     *)
(* sequence of steps that other teams' commands and the passing of time    *)
(* may interleave with.                                                    *)
(***************************************************************************)
EXTENDS Integers, Sequences, FiniteSets, TLC

\* ------------------------------------------------------------------ bounds
\* The timeout argument of acquire_lock / renew_lock / lock ranges over 1..MaxTimeout
\* (seconds of the store's clock).
MaxTimeout == 2

\* ------------------------------------------------------------- lock store
Teams == {"teamA", "teamB"}
\* One (platform, api_name) pair; _lock_key and _lock_info_key derive the two
\* Redis keys of the pair from it, so the pair stands for both.
Keys == {"apic:payment-api"}
Timeouts == 1..MaxTimeout

Absent == "absent"    \* the hash has no such field
\* No time: the key has no expiry set.
NoTime == -1

\* The primary lock key when it does not exist / the metadata hash when it does not.
NoLock == [token |-> "none", ttl |-> NoTime]
NoInfo == [exists |-> FALSE, team |-> Absent, ttl |-> NoTime]

VARIABLES
  lockKey,   \* primary lock key per pair: NoLock or [token, ttl]; the token is a
             \* fresh uuid, for which the creating team stands; ttl is the time
             \* the key has left
  info,      \* metadata hash per pair: NoInfo or [exists, team, ttl]; locked_at,
             \* reason and lock_id are written together with team, and a hash
             \* that exists has an expires_at field (a text no decision reads);
             \* ttl is the time the hash has left, NoTime when no expiry is set
  pc,        \* per team: where its LockManager call stands
  arg,       \* per team: the arguments and locals of the call in progress
  ret,       \* what the call that finished last returned or raised, and to whom
  epoch      \* per pair, since the primary key last ceased to exist:
             \* the teams whose set-if-absent ran, and those for which it succeeded

lockVars == <<lockKey, info, pc, arg, ret, epoch>>

VARIABLES
  clock,      \* what datetime.now() returns
  states,     \* StateTracker._states: per api_id, NoState or the MigrationState
  last,       \* the call made as one step that finished last: [op, api_id, result]
  canaryRun   \* per api_id: the record before, and the outcome and record after each
              \* of, the advance_canary calls made in a row from DEPLOYED_MIRROR

stateVars == <<clock, states, last, canaryRun>>

VARIABLES
  connectors,   \* BatchProcessor.connectors: the platform names configured
  behaviour,    \* per platform: how its connector behaves (see Raises)
  max_workers,  \* BatchProcessor.max_workers
  queue,        \* the executor's work queue: submitted tasks no worker has taken
  task,         \* per platform: the _discover_platform call submitted for it
  results,      \* the results dict of discover_all: per platform, NoResult or its entry
  mainPc        \* where discover_all stands: "new", "collect", "done"

discVars == <<connectors, behaviour, max_workers, queue, task, results, mainPc>>

VARIABLES
  call   \* per team: the state-tracker call it has in progress inside lock()

VARIABLES
  filter_engine,    \* BatchProcessor.filter_engine: NoFilter or the FilterEngine
  source_apis,      \* what connector.discover_apis() returned: a list of DiscoveredAPI
  platform_result   \* the BatchDiscoveryResult _discover_platform built from them

filterVars == <<filter_engine, source_apis, platform_result>>

VARIABLES
  risk_args,   \* the arguments of a calculate_risk call
  risk_score   \* the RiskScore it returned, NoScore before the call

riskVars == <<risk_args, risk_score>>

VARIABLES
  sweep   \* the cleanup_expired_locks call in progress: where it stands, the key the
          \* scan yielded, the keys it has yielded, and the count `cleaned`

\* What a call of the one component leaves alone.
notLockVars == <<stateVars, discVars, call, filterVars, riskVars, sweep>>
notStateVars == <<lockVars, discVars, call, filterVars, riskVars, sweep>>
notDiscVars == <<lockVars, stateVars, call, filterVars, riskVars, sweep>>
notFilterVars == <<lockVars, stateVars, discVars, call, riskVars, sweep>>
notRiskVars == <<lockVars, stateVars, discVars, call, filterVars, sweep>>
notSweepVars == <<stateVars, discVars, call, filterVars, riskVars>>

NoArg == [key |-> "none", timeout |-> 0, scoped |-> FALSE, exc |-> "none",
          holder |-> "none", blocking |-> FALSE, wait |-> 0]
NoConflict == [named |-> FALSE, owner |-> Absent]
\* What a finished call leaves in ret: to whom, which method, on which pair, whether
\* it returned success, the exception it raised, the conflict information of a
\* failed acquire, and the team whose primary key made the set-if-absent fail.
Ret(t, op, k, ok, exc, conflict, holder) ==
  [team |-> t, op |-> op, key |-> k, ok |-> ok, exc |-> exc, conflict |-> conflict,
   holder |-> holder]
NoRet == Ret("none", "none", "none", FALSE, "none", NoConflict, "none")
NoEpoch == [tried |-> {}, won |-> {}]

\* ---------------------------------------------------------- Redis commands
\* SET key token NX PX timeout, as issued by redis.lock.Lock.acquire:
\* creates the key only when it does not exist.
SetNXOverwrites(store, k, t, timeout) ==
  [ok |-> TRUE, store |-> [store EXCEPT ![k] = [token |-> t, ttl |-> timeout]]]
SetNX(store, k, t, timeout) ==
  IF store[k] = NoLock
    THEN [ok |-> TRUE, store |-> [store EXCEPT ![k] = [token |-> t, ttl |-> timeout]]]
    ELSE [ok |-> FALSE, store |-> store]

\* EXPIRE key timeout on the primary key: 1 and a new expiry when it exists, else 0.
ExpireLock(store, k, timeout) ==
  IF store[k] = NoLock
    THEN [ok |-> FALSE, store |-> store]
    ELSE [ok |-> TRUE, store |-> [store EXCEPT ![k].ttl = timeout]]

\* EXPIRE key timeout on the metadata hash.
ExpireInfo(store, k, timeout) ==
  IF store[k].exists
    THEN [store EXCEPT ![k].ttl = timeout]
    ELSE store

\* HSET key mapping=lock_info: sets the fields, creating the hash (with no expiry)
\* when it does not exist; an existing hash keeps its expiry.
HSetLockInfo(store, k, t, timeout) ==
  [store EXCEPT ![k] = [exists |-> TRUE, team |-> t, ttl |-> store[k].ttl]]

\* HSET key expires_at value: one field, creating the hash when it does not exist.
HSetExpiresAt(store, k, timeout) ==
  [store EXCEPT ![k] = [exists |-> TRUE, team |-> store[k].team,
                        ttl |-> store[k].ttl]]

\* HGETALL key: the hash, or the empty dict when the key does not exist.
HGetAll(k) == info[k]

\* One second later: a key whose time is up no longer exists for any command.
LockAfterTick(v) ==
  IF v = NoLock \/ v.ttl = 1 THEN NoLock ELSE [v EXCEPT !.ttl = @ - 1]
InfoAfterTick(v) ==
  IF ~v.exists \/ v.ttl = 1 THEN NoInfo
  ELSE [v EXCEPT !.ttl = IF @ = NoTime THEN NoTime ELSE @ - 1]

\* --------------------------------------------------------------- LockManager
\* owns_lock: the metadata hash exists and its team field is the caller's team.
OwnsLockAnyHolder(t, k) == HGetAll(k).exists
OwnsLock(t, k) ==
  LET lock_info == HGetAll(k)
  IN  IF ~lock_info.exists THEN FALSE ELSE lock_info.team = t

\* is_locked: EXISTS lock_key
IsLocked(k) == lockKey[k] # NoLock

\* get_lock_info: the metadata hash, or None (NoInfo) when HGETALL finds nothing.
GetLockInfo(k) == IF HGetAll(k).exists THEN HGetAll(k) ELSE NoInfo

\* list_active_locks(team): the pairs whose metadata hash exists and, when a team is
\* named, carries that team ("None" for team=None).
ListActiveLocks(team) ==
  {k \in Keys : HGetAll(k).exists /\ (team = "None" \/ HGetAll(k).team = team)}

\* release_lock: DELETE lock_key info_key, true when at least one key was deleted.
ReleaseKeepsInfo(k) ==
  [deleted |-> lockKey[k] # NoLock,
   lockKey |-> [lockKey EXCEPT ![k] = NoLock],
   info |-> info]
ReleaseReportsDeleted(k) ==
  [deleted |-> TRUE,
   lockKey |-> [lockKey EXCEPT ![k] = NoLock],
   info |-> [info EXCEPT ![k] = NoInfo]]
ReleaseLock(k) ==
  [deleted |-> lockKey[k] # NoLock \/ info[k].exists,
   lockKey |-> [lockKey EXCEPT ![k] = NoLock],
   info |-> [info EXCEPT ![k] = NoInfo]]

\* What acquire_lock builds from the metadata hash when the set-if-absent failed.
ConflictInfo(k) ==
  LET existing_info == HGetAll(k)
  IN  IF existing_info.exists
        THEN [named |-> TRUE, owner |-> existing_info.team]
        ELSE NoConflict

\* The primary key of pair k ceased to exist: a new epoch of k begins.
EpochAfter(k, oldLock, newLock) ==
  IF oldLock[k] # NoLock /\ newLock[k] = NoLock THEN NoEpoch ELSE epoch[k]

\* acquire_lock(api_name, platform, timeout) is called (blocking=False).
AcquireLockCall(t, k, timeout) ==
  /\ UNCHANGED notLockVars
  /\ pc[t] = "idle"
  /\ pc' = [pc EXCEPT ![t] = "acq_set"]
  /\ arg' = [arg EXCEPT ![t] = [NoArg EXCEPT !.key = k, !.timeout = timeout]]
  /\ UNCHANGED <<lockKey, info, ret, epoch>>

\* with lock(api_name, platform, timeout): is entered; it calls acquire_lock.
LockScopeCall(t, k, timeout) ==
  /\ UNCHANGED notLockVars
  /\ pc[t] = "idle"
  /\ pc' = [pc EXCEPT ![t] = "acq_set"]
  /\ arg' = [arg EXCEPT ![t] = [NoArg EXCEPT !.key = k, !.timeout = timeout,
                                             !.scoped = TRUE]]
  /\ UNCHANGED <<lockKey, info, ret, epoch>>

\* lock.acquire(blocking=False): the set-if-absent.
AcquireSet(t) ==
  /\ UNCHANGED notLockVars
  /\ pc[t] = "acq_set"
  /\ LET k == arg[t].key
         r == SetNX(lockKey, k, t, arg[t].timeout)
     IN  /\ lockKey' = r.store
         /\ epoch' = [epoch EXCEPT ![k].tried = @ \cup {t},
                                   ![k].won = IF r.ok THEN @ \cup {t} ELSE @]
         /\ pc' = [pc EXCEPT ![t] = IF r.ok THEN "acq_hset" ELSE "acq_conflict"]
         /\ arg' = [arg EXCEPT ![t].holder = IF r.ok THEN @ ELSE lockKey[k].token]
  /\ UNCHANGED <<info, ret>>

\* not acquired: hgetall(info_key), build the message, return (False, error_msg);
\* lock() raises LockConflictError(error) on it.
AcquireConflict(t) ==
  /\ UNCHANGED notLockVars
  /\ pc[t] = "acq_conflict"
  /\ LET c == ConflictInfo(arg[t].key)
     IN  ret' = Ret(t, IF arg[t].scoped THEN "lock" ELSE "acquire_lock", arg[t].key,
                    FALSE, IF arg[t].scoped THEN "LockConflictError" ELSE "none",
                    c, arg[t].holder)
  /\ pc' = [pc EXCEPT ![t] = "idle"]
  /\ arg' = [arg EXCEPT ![t] = NoArg]
  /\ UNCHANGED <<lockKey, info, epoch>>

\* acquired: hset(info_key, mapping=lock_info).
AcquireHSet(t) ==
  /\ UNCHANGED notLockVars
  /\ pc[t] = "acq_hset"
  /\ info' = HSetLockInfo(info, arg[t].key, t, arg[t].timeout)
  /\ pc' = [pc EXCEPT ![t] = "acq_expire"]
  /\ UNCHANGED <<lockKey, arg, ret, epoch>>

\* expire(info_key, timeout); return (True, None).  Under lock() the body starts.
AcquireExpireInfo(t) ==
  /\ UNCHANGED notLockVars
  /\ pc[t] = "acq_expire"
  /\ info' = ExpireInfo(info, arg[t].key, arg[t].timeout)
  /\ IF arg[t].scoped
       THEN /\ pc' = [pc EXCEPT ![t] = "body"]
            /\ arg' = [arg EXCEPT ![t].timeout = 0]
            /\ UNCHANGED ret
       ELSE /\ pc' = [pc EXCEPT ![t] = "idle"]
            /\ ret' = Ret(t, "acquire_lock", arg[t].key, TRUE, "none", NoConflict,
                           "none")
            /\ arg' = [arg EXCEPT ![t] = NoArg]
  /\ UNCHANGED <<lockKey, epoch>>

\* The caller's action under lock() ends: it returns, or it raises.
ScopeBodyEnds(t, raises) ==
  /\ UNCHANGED notLockVars
  /\ pc[t] = "body"
  /\ call[t].pc = "none"
  /\ pc' = [pc EXCEPT ![t] = "finally"]
  /\ arg' = [arg EXCEPT ![t].exc = IF raises THEN "ActionError" ELSE "none"]
  /\ UNCHANGED <<lockKey, info, ret, epoch>>

\* finally: release_lock(api_name, platform); the action's exception, if any,
\* leaves lock().
ScopeFinally(t) ==
  /\ UNCHANGED notLockVars
  /\ pc[t] = "finally"
  /\ LET k == arg[t].key
         r == ReleaseLock(k)
     IN  /\ lockKey' = r.lockKey
         /\ info' = r.info
         /\ epoch' = [epoch EXCEPT ![k] = EpochAfter(k, lockKey, r.lockKey)]
         /\ ret' = Ret(t, "lock", k, TRUE, arg[t].exc, NoConflict, "none")
  /\ pc' = [pc EXCEPT ![t] = "idle"]
  /\ arg' = [arg EXCEPT ![t] = NoArg]

\* release_lock(api_name, platform) is called.
ReleaseLockCall(t, k) ==
  /\ UNCHANGED notLockVars
  /\ pc[t] = "idle"
  /\ pc' = [pc EXCEPT ![t] = "rel_del"]
  /\ arg' = [arg EXCEPT ![t] = [NoArg EXCEPT !.key = k]]
  /\ UNCHANGED <<lockKey, info, ret, epoch>>

\* delete(lock_key, info_key); return deleted > 0.
ReleaseDelete(t) ==
  /\ UNCHANGED notLockVars
  /\ pc[t] = "rel_del"
  /\ LET k == arg[t].key
         r == ReleaseLock(k)
     IN  /\ lockKey' = r.lockKey
         /\ info' = r.info
         /\ epoch' = [epoch EXCEPT ![k] = EpochAfter(k, lockKey, r.lockKey)]
         /\ ret' = Ret(t, "release_lock", k, r.deleted, "none", NoConflict, "none")
  /\ pc' = [pc EXCEPT ![t] = "idle"]
  /\ arg' = [arg EXCEPT ![t] = NoArg]

\* renew_lock(api_name, platform, timeout) is called.
RenewLockCall(t, k, timeout) ==
  /\ UNCHANGED notLockVars
  /\ pc[t] = "idle"
  /\ pc' = [pc EXCEPT ![t] = "ren_owns"]
  /\ arg' = [arg EXCEPT ![t] = [NoArg EXCEPT !.key = k, !.timeout = timeout]]
  /\ UNCHANGED <<lockKey, info, ret, epoch>>

\* if not self.owns_lock(api_name, platform): return False
RenewOwns(t) ==
  /\ UNCHANGED notLockVars
  /\ pc[t] = "ren_owns"
  /\ IF OwnsLock(t, arg[t].key)
       THEN /\ pc' = [pc EXCEPT ![t] = "ren_expire"]
            /\ UNCHANGED <<arg, ret>>
       ELSE /\ pc' = [pc EXCEPT ![t] = "idle"]
            /\ ret' = Ret(t, "renew_lock", arg[t].key, FALSE, "none", NoConflict,
                           "none")
            /\ arg' = [arg EXCEPT ![t] = NoArg]
  /\ UNCHANGED <<lockKey, info, epoch>>

\* renewed = expire(lock_key, timeout); return renewed when it is false.
RenewExpire(t) ==
  /\ UNCHANGED notLockVars
  /\ pc[t] = "ren_expire"
  /\ LET r == ExpireLock(lockKey, arg[t].key, arg[t].timeout)
     IN  /\ lockKey' = r.store
         /\ IF r.ok
              THEN /\ pc' = [pc EXCEPT ![t] = "ren_hset"]
                   /\ UNCHANGED <<arg, ret>>
              ELSE /\ pc' = [pc EXCEPT ![t] = "idle"]
                   /\ ret' = Ret(t, "renew_lock", arg[t].key, FALSE, "none",
                                  NoConflict, "none")
                   /\ arg' = [arg EXCEPT ![t] = NoArg]
  /\ UNCHANGED <<info, epoch>>

\* hset(info_key, "expires_at", new_expires_at)
RenewHSet(t) ==
  /\ UNCHANGED notLockVars
  /\ pc[t] = "ren_hset"
  /\ info' = HSetExpiresAt(info, arg[t].key, arg[t].timeout)
  /\ pc' = [pc EXCEPT ![t] = "ren_expinfo"]
  /\ UNCHANGED <<lockKey, arg, ret, epoch>>

\* expire(info_key, timeout); return renewed
RenewExpireInfo(t) ==
  /\ UNCHANGED notLockVars
  /\ pc[t] = "ren_expinfo"
  /\ info' = ExpireInfo(info, arg[t].key, arg[t].timeout)
  /\ pc' = [pc EXCEPT ![t] = "idle"]
  /\ ret' = Ret(t, "renew_lock", arg[t].key, TRUE, "none", NoConflict, "none")
  /\ arg' = [arg EXCEPT ![t] = NoArg]
  /\ UNCHANGED <<lockKey, epoch>>

\* One second passes; the store drops every key whose time is up.
Tick ==
  /\ UNCHANGED notLockVars
  /\ lockKey' = [k \in Keys |-> LockAfterTick(lockKey[k])]
  /\ info' = [k \in Keys |-> InfoAfterTick(info[k])]
  /\ epoch' = [k \in Keys |-> EpochAfter(k, lockKey, lockKey')]
  /\ UNCHANGED <<pc, arg, ret>>

\* ------------------------------------------------------ cleanup_expired_locks
\* The keys scan_iter(match="api_migration:lock:*") can yield: the primary key and
\* the metadata key ("api_migration:lock:info:...") of each pair.
NoKey == [kind |-> "none", pair |-> "none"]
ScanKeys == [kind : {"lock", "info"}, pair : Keys]
NoSweep == [pc |-> "idle", key |-> NoKey, seen |-> {}, cleaned |-> 0]

\* EXISTS key
Exists(key) ==
  IF key.kind = "lock" THEN lockKey[key.pair] # NoLock ELSE info[key.pair].exists

\* cleanup_expired_locks is called: cleaned = 0 and the scan starts.
CleanupCall ==
  /\ UNCHANGED <<lockVars, notSweepVars>>
  /\ sweep.pc \in {"idle", "done"}
  /\ sweep' = [NoSweep EXCEPT !.pc = "scan"]

\* The scan yields a key: one that exists and that it did not yield before.
CleanupScan(key) ==
  /\ UNCHANGED <<lockVars, notSweepVars>>
  /\ sweep.pc = "scan"
  /\ key \notin sweep.seen
  /\ Exists(key)
  /\ sweep' = [sweep EXCEPT !.pc = "exists", !.key = key, !.seen = @ \cup {key}]

\* lines 291-294: the key the scan yielded is looked up itself; the metadata key
\* is deleted when that lookup does not find it.
AfterExists(key) ==
  IF ~Exists(key) /\ key.kind = "info" THEN "delete" ELSE "scan"

CleanupExists ==
  /\ UNCHANGED <<lockVars, notSweepVars>>
  /\ sweep.pc = "exists"
  /\ sweep' = [sweep EXCEPT !.pc = AfterExists(sweep.key)]

\* lines 295-296: DEL of the metadata key; cleaned += 1
CleanupDelete ==
  /\ UNCHANGED notSweepVars
  /\ sweep.pc = "delete"
  /\ info' = [info EXCEPT ![sweep.key.pair] = NoInfo]
  /\ sweep' = [sweep EXCEPT !.pc = "scan", !.cleaned = @ + 1]
  /\ UNCHANGED <<lockKey, pc, arg, ret, epoch>>

\* The scan is over, every key there is has been yielded: return cleaned.
CleanupReturn ==
  /\ UNCHANGED <<lockVars, notSweepVars>>
  /\ sweep.pc = "scan"
  /\ \A key \in ScanKeys : Exists(key) => key \in sweep.seen
  /\ sweep' = [sweep EXCEPT !.pc = "done", !.key = NoKey]

\* ------------------------------------------------ acquire_lock(blocking=True)
\* blocking_timeout ranges over 1..MaxBlockingTimeout (seconds of the store's clock).
MaxBlockingTimeout == 2

\* acquire_lock(api_name, platform, timeout, blocking=True, blocking_timeout) is
\* called: wait is the time left until stop_trying_at.
AcquireBlockingCall(t, k, timeout, blocking_timeout) ==
  /\ UNCHANGED notLockVars
  /\ pc[t] = "idle"
  /\ pc' = [pc EXCEPT ![t] = "acq_poll"]
  /\ arg' = [arg EXCEPT ![t] = [NoArg EXCEPT !.key = k, !.timeout = timeout,
                                             !.blocking = TRUE,
                                             !.wait = blocking_timeout]]
  /\ UNCHANGED <<lockKey, info, ret, epoch>>

\* What one round of the loop of redis.lock.Lock.acquire(blocking=True) leads to:
\* the set-if-absent succeeded; or the next try would lie past stop_trying_at and
\* acquire returns False; or the caller sleeps and tries again.
PollGivesUpEarly(ok, wait) ==
  IF ok THEN "acq_hset" ELSE "acq_conflict"
PollOutcome(ok, wait) ==
  IF ok THEN "acq_hset"
  ELSE IF wait = 0 THEN "acq_conflict"
  ELSE "acq_poll"

\* lock.acquire(blocking=True, blocking_timeout=...): one round of its loop.
AcquirePoll(t) ==
  /\ UNCHANGED notLockVars
  /\ pc[t] = "acq_poll"
  /\ LET k == arg[t].key
         r == SetNX(lockKey, k, t, arg[t].timeout)
     IN  /\ lockKey' = r.store
         /\ epoch' = [epoch EXCEPT ![k].tried = @ \cup {t},
                                   ![k].won = IF r.ok THEN @ \cup {t} ELSE @]
         /\ pc' = [pc EXCEPT ![t] = PollOutcome(r.ok, arg[t].wait)]
         /\ arg' = [arg EXCEPT ![t].holder = IF r.ok THEN @ ELSE lockKey[k].token]
  /\ UNCHANGED <<info, ret>>

\* One second passes, also for the callers that wait in a blocking acquire.
TickBlocking ==
  /\ UNCHANGED notLockVars
  /\ lockKey' = [k \in Keys |-> LockAfterTick(lockKey[k])]
  /\ info' = [k \in Keys |-> InfoAfterTick(info[k])]
  /\ epoch' = [k \in Keys |-> EpochAfter(k, lockKey, lockKey')]
  /\ arg' = [t \in Teams |->
               IF pc[t] = "acq_poll" /\ arg[t].wait > 0
                 THEN [arg[t] EXCEPT !.wait = @ - 1] ELSE arg[t]]
  /\ UNCHANGED <<pc, ret>>

\* =============================================================== StateTracker
\* The clock of the state tracker (datetime.now()) runs from 0 to MaxNow.
MaxNow == 1
\* advance_canary calls in a row that the canary run keeps (see canaryRun).
MaxRun == 7

\* The api ids callers name, and those of them that create_state is called for:
\* "api-2" is an id the tracker never gets a record for.
ApiIds == {"api-1", "api-2"}
DiscoveredIds == {"api-1"}

\* class MigrationStatus
MigrationStatus ==
  {"DISCOVERED", "PLANNED", "VALIDATED", "DEPLOYED_MIRROR", "CANARY_5", "CANARY_25",
   "CANARY_50", "CANARY_75", "COMPLETED", "ROLLED_BACK", "DECOMMISSIONED", "FAILED"}

NoStatus == "None"    \* previous_status: Optional[MigrationStatus] = None
NoReason == "None"    \* transition_reason: Optional[str] = None
\* target_traffic_percentage: Optional[int] = None
NonePct == -1

\* VALID_TRANSITIONS
VALID_TRANSITIONS(current) ==
  CASE current = "DISCOVERED" -> {"PLANNED", "FAILED"}
    [] current = "PLANNED" -> {"VALIDATED", "DISCOVERED", "FAILED"}
    [] current = "VALIDATED" -> {"DEPLOYED_MIRROR", "PLANNED", "FAILED"}
    [] current = "DEPLOYED_MIRROR" -> {"CANARY_5", "ROLLED_BACK", "VALIDATED", "FAILED"}
    [] current = "CANARY_5" -> {"CANARY_25", "ROLLED_BACK", "DEPLOYED_MIRROR", "FAILED"}
    [] current = "CANARY_25" -> {"CANARY_50", "ROLLED_BACK", "CANARY_5", "FAILED"}
    [] current = "CANARY_50" -> {"CANARY_75", "ROLLED_BACK", "CANARY_25", "FAILED"}
    [] current = "CANARY_75" -> {"COMPLETED", "ROLLED_BACK", "CANARY_50", "FAILED"}
    [] current = "COMPLETED" -> {"DECOMMISSIONED", "ROLLED_BACK"}
    [] current = "ROLLED_BACK" -> {"DEPLOYED_MIRROR", "FAILED"}
    [] current = "DECOMMISSIONED" -> {}
    [] current = "FAILED" -> {"DISCOVERED"}
    [] OTHER -> {}


\* The fields of MigrationState that a call of the tracker writes.  api_name and
\* platform are set once; the gloo_*, metric and locked_* fields stay None unless a
\* caller names them in **kwargs.
NoState ==
  [exists |-> FALSE, status |-> NoStatus, previous_status |-> NoStatus,
   current_traffic_percentage |-> 0, target_traffic_percentage |-> NonePct,
   last_transition_at |-> 0, transition_reason |-> NoReason,
   created_at |-> 0, updated_at |-> 0]

\* The **kwargs a caller may pass to transition: none that counts (a dict whose one
\* key is no attribute of the record, which the loop skips), a target percentage,
\* and the status field itself.  advance_canary and rollback pass
\* current_traffic_percentage.
NoKwargs == [note |-> "x"]
KwargsChoices ==
  { NoKwargs,
    [target_traffic_percentage |-> 50, note |-> "x"],
    [status |-> "PLANNED"] }

Reasons == {NoReason, "manual"}

\* get_state
GetState(api_id) == states[api_id]

\* can_transition
CanTransitionAlways(current_status, target_status) == TRUE
CanTransitionFromFailed(current_status, target_status) ==
  \/ target_status \in VALID_TRANSITIONS(current_status)
  \/ current_status = "FAILED" /\ target_status = "PLANNED"
CanTransitionNoFailEdge(current_status, target_status) ==
  /\ target_status \in VALID_TRANSITIONS(current_status)
  /\ ~(current_status = "CANARY_75" /\ target_status = "FAILED")
CanTransitionNoRevert(current_status, target_status) ==
  /\ target_status \in VALID_TRANSITIONS(current_status)
  /\ ~(current_status = "COMPLETED" /\ target_status = "ROLLED_BACK")
CanTransitionNoRetry(current_status, target_status) ==
  /\ target_status \in VALID_TRANSITIONS(current_status)
  /\ current_status # "FAILED"
CanTransition(current_status, target_status) ==
  target_status \in VALID_TRANSITIONS(current_status)

\* get_traffic_percentage_for_status: traffic_map.get(status, 0)
GetTrafficPercentageForStatus(status) ==
  CASE status = "CANARY_5" -> 5
    [] status = "CANARY_25" -> 25
    [] status = "CANARY_50" -> 50
    [] status = "CANARY_75" -> 75
    [] status = "COMPLETED" -> 100
    [] OTHER -> 0

\* create_state: a new MigrationState, stored under api_id whatever was there.
NewState(api_id, initial_status) ==
  [NoState EXCEPT !.exists = TRUE, !.status = initial_status,
                  !.created_at = clock, !.updated_at = clock,
                  !.last_transition_at = clock]

\* transition, lines 252-262: the record after a valid transition.  Each key of
\* kwargs that is an attribute of the record is set after the five assignments.
Has(kwargs, key) == key \in DOMAIN kwargs
UpdatedSwapsStatuses(state, target_status, reason, kwargs) ==
  [state EXCEPT !.previous_status = target_status, !.status = state.status]
Updated(state, target_status, reason, kwargs) ==
  [exists |-> TRUE,
   status |-> IF Has(kwargs, "status") THEN kwargs.status ELSE target_status,
   previous_status |-> IF Has(kwargs, "previous_status") THEN kwargs.previous_status
                       ELSE state.status,
   current_traffic_percentage |->
      IF Has(kwargs, "current_traffic_percentage")
        THEN kwargs.current_traffic_percentage ELSE state.current_traffic_percentage,
   target_traffic_percentage |->
      IF Has(kwargs, "target_traffic_percentage")
        THEN kwargs.target_traffic_percentage ELSE state.target_traffic_percentage,
   last_transition_at |-> clock,
   transition_reason |-> reason,
   created_at |-> state.created_at,
   updated_at |-> clock]

\* transition as a whole: the error it raises, or the record it leaves.
TransitionOutcomeUpserts(api_id, target_status, reason, kwargs) ==
  LET state == GetState(api_id)
  IN  IF state.exists /\ ~CanTransition(state.status, target_status)
        THEN [result |-> "StateTransitionError", state |-> state]
      ELSE [result |-> "ok", state |-> Updated(state, target_status, reason, kwargs)]
TransitionOutcomeDropsRetired(api_id, target_status, reason, kwargs) ==
  LET state == GetState(api_id)
  IN  IF ~state.exists
        THEN [result |-> "ValueError", state |-> state]
      ELSE IF ~CanTransition(state.status, target_status)
        THEN [result |-> "StateTransitionError", state |-> state]
      ELSE IF target_status = "DECOMMISSIONED"
        THEN [result |-> "ok", state |-> NoState]
      ELSE [result |-> "ok", state |-> Updated(state, target_status, reason, kwargs)]
TransitionOutcome(api_id, target_status, reason, kwargs) ==
  LET state == GetState(api_id)
  IN  IF ~state.exists
        THEN [result |-> "ValueError", state |-> state]
      ELSE IF ~CanTransition(state.status, target_status)
        THEN [result |-> "StateTransitionError", state |-> state]
      ELSE [result |-> "ok", state |-> Updated(state, target_status, reason, kwargs)]

\* advance_canary, lines 306-321: the next status, or "error" for the ValueError of
\* index() and the IndexError past the end of the list.
canary_progression ==
  <<"DEPLOYED_MIRROR", "CANARY_5", "CANARY_25", "CANARY_50", "CANARY_75", "COMPLETED">>
NextCanaryStatusSkips(status) ==
  LET at == {i \in 1..Len(canary_progression) : canary_progression[i] = status}
  IN  IF at = {} THEN "error"
      ELSE LET current_index == CHOOSE i \in at : TRUE
           IN  IF current_index + 2 > Len(canary_progression) THEN "error"
               ELSE canary_progression[current_index + 2]
NextCanaryStatusRestarts(status) ==
  LET at == {i \in 1..Len(canary_progression) : canary_progression[i] = status}
  IN  IF at = {} THEN canary_progression[1]
      ELSE LET current_index == CHOOSE i \in at : TRUE
           IN  IF current_index + 1 > Len(canary_progression) THEN "error"
               ELSE canary_progression[current_index + 1]
NextCanaryStatus(status) ==
  LET at == {i \in 1..Len(canary_progression) : canary_progression[i] = status}
  IN  IF at = {} THEN "error"
      ELSE LET current_index == CHOOSE i \in at : TRUE
           IN  IF current_index + 1 > Len(canary_progression) THEN "error"
               ELSE canary_progression[current_index + 1]

\* reason or f"Advancing to {next_traffic}% traffic"
AdvanceReason(reason, next_traffic) ==
  IF reason = NoReason THEN "Advancing to " \o ToString(next_traffic) \o "% traffic"
  ELSE reason

AdvanceOutcome(api_id, reason) ==
  LET state == GetState(api_id)
  IN  IF ~state.exists
        THEN [result |-> "ValueError", state |-> state]
      ELSE IF NextCanaryStatus(state.status) = "error"
        THEN [result |-> "StateTransitionError", state |-> state]
      ELSE LET next_status == NextCanaryStatus(state.status)
               next_traffic == GetTrafficPercentageForStatus(next_status)
           IN  TransitionOutcome(api_id, next_status,
                                 AdvanceReason(reason, next_traffic),
                                 [current_traffic_percentage |-> next_traffic,
                                  target_traffic_percentage |-> next_traffic])

\* What canaryRun keeps of a record.
Snap(state, ok) ==
  [ok |-> ok, status |-> state.status, pct |-> state.current_traffic_percentage]

\* canaryRun after a call on api_id: any call but advance_canary ends the run; an
\* advance_canary of a record in DEPLOYED_MIRROR starts one; each later one adds to it.
RunAfter(api_id, advance, out) ==
  LET run == canaryRun[api_id]
      before == states[api_id]
  IN  IF ~advance THEN <<>>
      ELSE IF run = <<>>
        THEN IF before.exists /\ before.status = "DEPLOYED_MIRROR"
               THEN <<Snap(before, TRUE), Snap(out.state, out.result = "ok")>>
               ELSE <<>>
      ELSE IF Len(run) >= MaxRun + 1 THEN run
      ELSE Append(run, Snap(out.state, out.result = "ok"))

CreateState(api_id, initial_status) ==
  /\ UNCHANGED notStateVars
  /\ states' = [states EXCEPT ![api_id] = NewState(api_id, initial_status)]
  /\ last' = [op |-> "create_state", api_id |-> api_id, result |-> "ok"]
  /\ canaryRun' = [canaryRun EXCEPT ![api_id] = <<>>]
  /\ UNCHANGED clock

Transition(api_id, target_status, reason, kwargs) ==
  LET out == TransitionOutcome(api_id, target_status, reason, kwargs)
  IN  /\ states' = [states EXCEPT ![api_id] = out.state]
      /\ last' = [op |-> "transition", api_id |-> api_id, result |-> out.result]
      /\ canaryRun' = [canaryRun EXCEPT ![api_id] = RunAfter(api_id, FALSE, out)]
      /\ UNCHANGED <<clock, notStateVars>>

AdvanceCanary(api_id, reason) ==
  LET out == AdvanceOutcome(api_id, reason)
  IN  /\ states' = [states EXCEPT ![api_id] = out.state]
      /\ last' = [op |-> "advance_canary", api_id |-> api_id, result |-> out.result]
      /\ canaryRun' = [canaryRun EXCEPT ![api_id] = RunAfter(api_id, TRUE, out)]
      /\ UNCHANGED <<clock, notStateVars>>

\* rollback: transition(api_id, ROLLED_BACK, reason=reason, current_traffic_percentage=0)
RollbackKeepsTraffic(api_id, reason) ==
  LET out == TransitionOutcome(api_id, "ROLLED_BACK", reason, NoKwargs)
  IN  /\ states' = [states EXCEPT ![api_id] = out.state]
      /\ last' = [op |-> "rollback", api_id |-> api_id, result |-> out.result]
      /\ canaryRun' = [canaryRun EXCEPT ![api_id] = RunAfter(api_id, FALSE, out)]
      /\ UNCHANGED <<clock, notStateVars>>
Rollback(api_id, reason) ==
  LET out == TransitionOutcome(api_id, "ROLLED_BACK", reason,
                               [current_traffic_percentage |-> 0])
  IN  /\ states' = [states EXCEPT ![api_id] = out.state]
      /\ last' = [op |-> "rollback", api_id |-> api_id, result |-> out.result]
      /\ canaryRun' = [canaryRun EXCEPT ![api_id] = RunAfter(api_id, FALSE, out)]
      /\ UNCHANGED <<clock, notStateVars>>

\* fail: transition(api_id, FAILED, reason=reason)
Fail(api_id, reason) ==
  LET out == TransitionOutcome(api_id, "FAILED", reason, NoKwargs)
  IN  /\ states' = [states EXCEPT ![api_id] = out.state]
      /\ last' = [op |-> "fail", api_id |-> api_id, result |-> out.result]
      /\ canaryRun' = [canaryRun EXCEPT ![api_id] = RunAfter(api_id, FALSE, out)]
      /\ UNCHANGED <<clock, notStateVars>>

\* Time passes between two calls.
ClockTick ==
  /\ UNCHANGED notStateVars
  /\ clock < MaxNow
  /\ clock' = clock + 1
  /\ UNCHANGED <<states, last, canaryRun>>

\* ------------------------------------------- tracker calls made under lock()
\* A team migrates an API inside `with lock_manager.lock(api_name, platform):` and
\* calls the state tracker there.  transition is no atomic step: the lookup and the
\* validation, then each assignment to the record, are steps of their own.
NoCall ==
  [pc |-> "none", op |-> "none", api_id |-> "none", target |-> NoStatus,
   reason |-> NoReason, kwargs |-> NoKwargs, before |-> NoState]

\* The api id each lock pair guards.
ApiOf(k) == "api-1"

\* The call ends, returning the record or raising the error, to the team's action.
CallEnds(t, result) ==
  /\ call' = [call EXCEPT ![t] = NoCall]
  /\ UNCHANGED last

\* transition / rollback / fail / advance_canary is called by the team inside lock().
TrackerCall(t, op, target) ==
  /\ pc[t] = "body"
  /\ call[t].pc = "none"
  /\ call' = [call EXCEPT ![t] =
       [NoCall EXCEPT
          !.pc = IF op = "advance_canary" THEN "advance" ELSE "lookup",
          !.op = op,
          !.api_id = ApiOf(arg[t].key),
          !.target = CASE op = "rollback" -> "ROLLED_BACK"
                       [] op = "fail" -> "FAILED"
                       [] op = "advance_canary" -> NoStatus
                       [] OTHER -> target,
          !.reason = "manual",
          !.kwargs = IF op = "rollback" THEN [current_traffic_percentage |-> 0]
                     ELSE NoKwargs]]
  /\ UNCHANGED <<lockVars, stateVars, discVars, filterVars, riskVars, sweep>>

\* transition is called by a team that holds no lock (no lock() around the call).
UnlockedCall(t, api_id, target) ==
  /\ pc[t] = "idle"
  /\ call[t].pc = "none"
  /\ call' = [call EXCEPT ![t] =
       [NoCall EXCEPT !.pc = "lookup", !.op = "transition", !.api_id = api_id,
                      !.target = target, !.reason = "manual"]]
  /\ UNCHANGED <<lockVars, stateVars, discVars, filterVars, riskVars, sweep>>

\* advance_canary, lines 300-332: the next phase is looked up and transition called.
CallAdvance(t) ==
  /\ call[t].pc = "advance"
  /\ LET state == GetState(call[t].api_id)
         next_status == NextCanaryStatus(state.status)
         next_traffic == GetTrafficPercentageForStatus(next_status)
     IN  IF ~state.exists
           THEN CallEnds(t, "ValueError")
         ELSE IF next_status = "error"
           THEN CallEnds(t, "StateTransitionError")
         ELSE /\ call' = [call EXCEPT ![t].pc = "lookup",
                                      ![t].target = next_status,
                                      ![t].kwargs =
                                         [current_traffic_percentage |-> next_traffic,
                                          target_traffic_percentage |-> next_traffic]]
              /\ UNCHANGED last
  /\ UNCHANGED <<lockVars, clock, states, canaryRun, discVars, filterVars, riskVars, sweep>>

\* transition, lines 241-250: get_state and can_transition.
CallLookup(t) ==
  /\ call[t].pc = "lookup"
  /\ LET state == GetState(call[t].api_id)
     IN  IF ~state.exists
           THEN CallEnds(t, "ValueError")
         ELSE IF ~CanTransition(state.status, call[t].target)
           THEN CallEnds(t, "StateTransitionError")
         ELSE /\ call' = [call EXCEPT ![t].pc = "prev", ![t].before = state]
              /\ UNCHANGED last
  /\ UNCHANGED <<lockVars, clock, states, canaryRun, discVars, filterVars, riskVars, sweep>>

\* line 253: state.previous_status = state.status
CallSetPrevious(t) ==
  /\ call[t].pc = "prev"
  /\ states' = [states EXCEPT ![call[t].api_id].previous_status =
                                 states[call[t].api_id].status]
  /\ call' = [call EXCEPT ![t].pc = "status"]
  /\ UNCHANGED <<lockVars, clock, last, canaryRun, discVars, filterVars, riskVars, sweep>>

\* line 254: state.status = target_status
CallSetStatus(t) ==
  /\ call[t].pc = "status"
  /\ states' = [states EXCEPT ![call[t].api_id].status = call[t].target]
  /\ call' = [call EXCEPT ![t].pc = "rest"]
  /\ UNCHANGED <<lockVars, clock, last, canaryRun, discVars, filterVars, riskVars, sweep>>

\* lines 255-262: the timestamps, the reason and the fields named in kwargs.
Rest(state, reason, kwargs) ==
  [state EXCEPT
     !.last_transition_at = clock,
     !.transition_reason = reason,
     !.updated_at = clock,
     !.status = IF Has(kwargs, "status") THEN kwargs.status ELSE @,
     !.previous_status = IF Has(kwargs, "previous_status")
                           THEN kwargs.previous_status ELSE @,
     !.current_traffic_percentage =
        IF Has(kwargs, "current_traffic_percentage")
          THEN kwargs.current_traffic_percentage ELSE @,
     !.target_traffic_percentage =
        IF Has(kwargs, "target_traffic_percentage")
          THEN kwargs.target_traffic_percentage ELSE @]

\* lines 255-267: the remaining assignments; transition returns.
CallFinish(t) ==
  /\ call[t].pc = "rest"
  /\ states' = [states EXCEPT ![call[t].api_id] =
                   Rest(states[call[t].api_id], call[t].reason, call[t].kwargs)]
  /\ CallEnds(t, "ok")
  /\ UNCHANGED <<lockVars, clock, canaryRun, discVars, filterVars, riskVars, sweep>>

\* The record of an API is created when it is discovered, before any team
\* migrates it.
CreateOnDiscovery(api_id) ==
  /\ ~states[api_id].exists
  /\ CreateState(api_id, "DISCOVERED")

\* Time passes, and no lock() scope lasts longer than the TTL it asked for: the
\* primary key of a pair does not run out.
TickWithinTTL ==
  /\ \A k \in Keys : lockKey[k] # NoLock => lockKey[k].ttl > 1
  /\ Tick

InitCall == call = [t \in Teams |-> NoCall]

\* ============================================================ BatchProcessor
\* max_workers ranges over 1..MaxWorkers.
MaxWorkers == 2

\* The platforms a run may be configured with, in the order of the connectors dict.
Platforms == {"apic", "mulesoft", "kafka"}
PlatformOrder == <<"apic", "mulesoft", "kafka">>

\* What discover_apis of each platform's connector returns when it does not raise.
ApisOf(p) ==
  CASE p = "apic" -> {"payment-api", "orders-api"}
    [] p = "mulesoft" -> {"crm-sync"}
    [] OTHER -> {}

\* A connector: sound, failing on its first call only, or failing on every call;
\* and which of connect / discover_apis raises.
Behaviours ==
  {[kind |-> "ok", at |-> "connect"]} \cup
  [kind : {"flaky", "down"}, at : {"connect", "discover"}]

\* A connector whose connect or discover_apis never returns (no answer from the
\* platform, no timeout on the socket).
HangBehaviours == [kind : {"hangs"}, at : {"connect", "discover"}]
Hangs(b, m) == b.kind = "hangs" /\ b.at = m

\* Whether the n-th call of method m of a connector raises.
Raises(b, m, n) ==
  /\ b.at = m
  /\ \/ b.kind = "down"
     \/ b.kind = "flaky" /\ n = 1

\* @retry(stop=stop_after_attempt(3), ...)
stop_after_attempt == 3

\* BatchDiscoveryResult (duration_seconds left out: no decision reads it).
NoResult ==
  [present |-> FALSE, platform |-> "none", success |-> FALSE, total_discovered |-> 0,
   filtered_count |-> 0, apis |-> {}, errors |-> <<>>]

\* lines 219-227; no filter engine is configured, so filtered_apis = discovered_apis.
SuccessResult(p, discovered_apis, errors) ==
  [present |-> TRUE, platform |-> p, success |-> TRUE,
   total_discovered |-> Cardinality(discovered_apis),
   filtered_count |-> Cardinality(discovered_apis),
   apis |-> discovered_apis, errors |-> errors]

\* lines 237-245 and 126-134
FailedResult(p, errors) ==
  [present |-> TRUE, platform |-> p, success |-> FALSE, total_discovered |-> 0,
   filtered_count |-> 0, apis |-> {}, errors |-> errors]

\* A task: pc is "none" (not submitted), "queued", "connect", "discover" or "done";
\* attempt counts the calls tenacity made of _discover_platform, connects and
\* discovers the calls of the connector's methods; raised tells that the future
\* holds an exception, result the value it holds otherwise.
NoTask ==
  [pc |-> "none", attempt |-> 0, connects |-> 0, discovers |-> 0, raised |-> FALSE,
   result |-> NoResult]

\* The tasks a worker thread is running.
InFlight == {p \in Platforms : task[p].pc \in {"connect", "discover"}}

\* ThreadPoolExecutor(max_workers=self.max_workers): a queued task starts when fewer
\* than max_workers worker threads are busy.
WorkerAlwaysFree == TRUE
WorkerFree == Cardinality(InFlight) < max_workers

\* line 235: except Exception catches what connect and discover_apis raise
\* (after the inner handlers re-raised it).
OuterExceptCatches == TRUE

\* The submission order: the configured platforms in the order of the dict.
RECURSIVE Submitted(_, _)
Submitted(order, configured) ==
  IF order = <<>> THEN <<>>
  ELSE IF Head(order) \in configured
         THEN <<Head(order)>> \o Submitted(Tail(order), configured)
         ELSE Submitted(Tail(order), configured)

\* What a raise inside _discover_platform leads to.  The outer handler turns it into
\* a returned failed result; an exception that left the function would make
\* tenacity call it again, up to stop_after_attempt calls, and raise RetryError then.
AfterRaise(p, t, errors) ==
  IF OuterExceptCatches
    THEN [t EXCEPT !.pc = "done",
                   !.result = FailedResult(p, errors \o <<"exception">>)]
  ELSE IF t.attempt < stop_after_attempt
    THEN [t EXCEPT !.pc = "connect", !.attempt = t.attempt + 1]
  ELSE [t EXCEPT !.pc = "done", !.raised = TRUE]

\* discover_all, lines 84-100: the executor is created and one task per connector
\* is submitted.
DiscoverAll ==
  /\ UNCHANGED notDiscVars
  /\ mainPc = "new"
  /\ queue' = Submitted(PlatformOrder, connectors)
  /\ task' = [p \in Platforms |->
                IF p \in connectors THEN [NoTask EXCEPT !.pc = "queued"] ELSE NoTask]
  /\ mainPc' = "collect"
  /\ UNCHANGED <<connectors, behaviour, max_workers, results>>

\* A worker thread takes the next task of the queue: tenacity makes the first call
\* of _discover_platform (use_cache finds nothing: _get_cached_result returns None).
TaskStart(p) ==
  /\ UNCHANGED notDiscVars
  /\ queue # <<>>
  /\ Head(queue) = p
  /\ WorkerFree
  /\ queue' = Tail(queue)
  /\ task' = [task EXCEPT ![p].pc = "connect", ![p].attempt = 1]
  /\ UNCHANGED <<connectors, behaviour, max_workers, results, mainPc>>

\* lines 179-183: connector.connect()
TaskConnect(p) ==
  /\ UNCHANGED notDiscVars
  /\ task[p].pc = "connect"
  /\ ~Hangs(behaviour[p], "connect")
  /\ LET n == task[p].connects + 1
         t == [task[p] EXCEPT !.connects = n]
     IN  task' = [task EXCEPT ![p] =
                    IF Raises(behaviour[p], "connect", n)
                      THEN AfterRaise(p, t, <<"Connection failed">>)
                      ELSE [t EXCEPT !.pc = "discover"]]
  /\ UNCHANGED <<connectors, behaviour, max_workers, queue, results, mainPc>>

\* lines 186-233: connector.discover_apis(), then the result is built and returned.
TaskDiscover(p) ==
  /\ UNCHANGED notDiscVars
  /\ task[p].pc = "discover"
  /\ ~Hangs(behaviour[p], "discover")
  /\ LET n == task[p].discovers + 1
         t == [task[p] EXCEPT !.discovers = n]
     IN  task' = [task EXCEPT ![p] =
                    IF Raises(behaviour[p], "discover", n)
                      THEN AfterRaise(p, t, <<"Discovery failed">>)
                      ELSE [t EXCEPT !.pc = "done",
                                     !.result = SuccessResult(p, ApisOf(p), <<>>)]]
  /\ UNCHANGED <<connectors, behaviour, max_workers, queue, results, mainPc>>

\* lines 113-134: as_completed yields a finished future; its result, or a failed
\* result when the future holds an exception, is stored under the platform's name.
Collect(p) ==
  /\ UNCHANGED notDiscVars
  /\ mainPc = "collect"
  /\ task[p].pc = "done"
  /\ ~results[p].present
  /\ results' = [results EXCEPT ![p] =
                   IF task[p].raised THEN FailedResult(p, <<"RetryError">>)
                   ELSE task[p].result]
  /\ UNCHANGED <<connectors, behaviour, max_workers, queue, task, mainPc>>

\* lines 136-144: every future has been collected; discover_all returns results.
DiscoverAllReturns ==
  /\ UNCHANGED notDiscVars
  /\ mainPc = "collect"
  /\ \A p \in connectors : results[p].present
  /\ mainPc' = "done"
  /\ UNCHANGED <<connectors, behaviour, max_workers, queue, task, results>>

\* get_all_apis: the APIs of the successful entries.
GetAllApis == UNION {results[p].apis : p \in {q \in Platforms : results[q].success}}

\* A processor that is not running: what the other components' specifications hold.
InitDiscIdle ==
  /\ connectors = {}
  /\ behaviour = [p \in Platforms |-> [kind |-> "ok", at |-> "connect"]]
  /\ max_workers = 1
  /\ queue = <<>>
  /\ task = [p \in Platforms |-> NoTask]
  /\ results = [p \in Platforms |-> NoResult]
  /\ mainPc = "new"

\* BatchProcessor(connectors, max_workers=...): any set of platforms, each with a
\* connector of any behaviour.
InitDisc ==
  /\ connectors \in SUBSET Platforms
  /\ behaviour \in [Platforms -> Behaviours]
  /\ \A p \in Platforms \ connectors : behaviour[p] = [kind |-> "ok", at |-> "connect"]
  /\ max_workers \in 1..MaxWorkers
  /\ queue = <<>>
  /\ task = [p \in Platforms |-> NoTask]
  /\ results = [p \in Platforms |-> NoResult]
  /\ mainPc = "new"

\* ======================================= FilterEngine and the filtering of a result
\* The longest list a connector returns.
MaxApis == 2

NoOwner == "None"    \* owner_team / owner_domain: Optional[str] = None
NoPath == "None"     \* base_path None or empty: matches_*_patterns skip the path

\* The DiscoveredAPI objects a connector may return (the fields the filter reads).
\* Two versions of one API carry the same name.
ApiNames == {"payment-api", "orders-svc"}
ApiPaths == {NoPath, "/api/v2/pay"}
ApiTags == {"pci"}
DiscoveredAPIs ==
  [name : ApiNames, base_path : ApiPaths, tags : SUBSET ApiTags,
   owner_team : {NoOwner, "payments"}, owner_domain : {"retail"}]

\* APIMetadata(name=api.name, ..., path=api.base_path), lines 197-204
ToMetadata(api) ==
  [name |-> api.name, tags |-> api.tags, owner_team |-> api.owner_team,
   owner_domain |-> api.owner_domain, path |-> api.base_path]

\* FilterEngine._is_regex: a pattern with one of . ^ $ + ? { } [ ] \ | ( ) is a regex.
IsRegex(pattern) == pattern \in {"^/api/v2/.*"}
\* fnmatch.fnmatch(text, pattern) on the texts of the model
Fnmatch(text, pattern) ==
  CASE pattern = "payment-*" -> text \in {"payment-api"}
    [] pattern = "orders-*" -> text \in {"orders-svc"}
    [] OTHER -> FALSE
\* bool(re.search(pattern, text)) on the texts of the model
ReSearch(pattern, text) ==
  CASE pattern = "^/api/v2/.*" -> text \in {"/api/v2/pay"}
    [] OTHER -> FALSE
\* FilterEngine._matches_pattern
MatchesPattern(text, pattern) ==
  IF IsRegex(pattern) THEN ReSearch(pattern, text) ELSE Fnmatch(text, pattern)

\* search_fields = [api.name] + ([api.path] if api.path else [])
SearchFields(api) == {api.name} \cup (IF api.path = NoPath THEN {} ELSE {api.path})

\* The custom predicates of the model: callables from APIMetadata to bool.
Predicate(name, api) == IF name = "has_path" THEN api.path # NoPath ELSE TRUE

\* FilterEngine(...): the patterns and predicates are lists that any() and all()
\* run over, sets here.  NoFilter is filter_engine = None.
NoFilter ==
  [configured |-> FALSE, include_patterns |-> {}, exclude_patterns |-> {},
   tags |-> {}, owner_team |-> NoOwner, owner_domain |-> NoOwner,
   custom_predicates |-> {}]
FilterEngines ==
  [configured : {TRUE}, include_patterns : SUBSET {"payment-*", "^/api/v2/.*"},
   exclude_patterns : SUBSET {"orders-*"}, tags : SUBSET ApiTags,
   owner_team : {NoOwner, "payments"}, owner_domain : {NoOwner, "retail"},
   custom_predicates : SUBSET {"has_path"}]

MatchesIncludePatterns(engine, api) ==
  \/ engine.include_patterns = {}
  \/ \E field \in SearchFields(api), pattern \in engine.include_patterns :
       MatchesPattern(field, pattern)

MatchesExcludePatterns(engine, api) ==
  /\ engine.exclude_patterns # {}
  /\ \E field \in SearchFields(api), pattern \in engine.exclude_patterns :
       MatchesPattern(field, pattern)

MatchesTags(engine, api) == engine.tags = {} \/ engine.tags \subseteq api.tags

MatchesOwnership(engine, api) ==
  /\ ~(engine.owner_team # NoOwner /\ api.owner_team # engine.owner_team)
  /\ ~(engine.owner_domain # NoOwner /\ api.owner_domain # engine.owner_domain)

MatchesCustomPredicates(engine, api) ==
  \A predicate \in engine.custom_predicates : Predicate(predicate, api)

\* FilterEngine.matches
Matches(engine, api) ==
  /\ MatchesIncludePatterns(engine, api)
  /\ ~MatchesExcludePatterns(engine, api)
  /\ MatchesTags(engine, api)
  /\ MatchesOwnership(engine, api)
  /\ MatchesCustomPredicates(engine, api)

\* FilterEngine.filter
Filter(engine, apis) == SelectSeq(apis, LAMBDA api : Matches(engine, api))

\* _discover_platform, lines 192-215: the APIs kept are those whose name is the name
\* of a metadata object that passed the filter.
FilteredApis(engine, discovered) ==
  IF ~engine.configured THEN discovered
  ELSE LET api_metadata == [i \in DOMAIN discovered |-> ToMetadata(discovered[i])]
           filtered_metadata == Filter(engine, api_metadata)
           filtered_names == {filtered_metadata[i].name : i \in DOMAIN filtered_metadata}
       IN  SelectSeq(discovered, LAMBDA api : api.name \in filtered_names)

\* lines 219-227
FilteredResult(engine, discovered) ==
  LET filtered_apis == FilteredApis(engine, discovered)
  IN  [present |-> TRUE, success |-> TRUE, total_discovered |-> Len(discovered),
       filtered_count |-> Len(filtered_apis), apis |-> filtered_apis]

NoFilteredResult ==
  [present |-> FALSE, success |-> FALSE, total_discovered |-> 0, filtered_count |-> 0,
   apis |-> <<>>]

\* _discover_platform from the return of discover_apis to its own return.
ApplyFilters ==
  /\ UNCHANGED notFilterVars
  /\ ~platform_result.present
  /\ platform_result' = FilteredResult(filter_engine, source_apis)
  /\ UNCHANGED <<filter_engine, source_apis>>

\* Lists of at most n elements of S.
ListsUpTo(S, n) == UNION {[1..m -> S] : m \in 0..n}

InitFilterIdle ==
  /\ filter_engine = NoFilter
  /\ source_apis = <<>>
  /\ platform_result = NoFilteredResult

\* Any processor, with or without a filter, and any list a connector returns.
InitFilter ==
  /\ filter_engine \in FilterEngines \cup {NoFilter}
  /\ source_apis \in ListsUpTo(DiscoveredAPIs, MaxApis)
  /\ platform_result = NoFilteredResult

\* ================================================================= RiskScorer
\* Scores are decimal fractions with few digits; they are kept exact, as integers:
\* a component risk in hundredths, the overall score before rounding in
\* ten-thousandths, the returned overall_score in hundredths.  Where the result in
\* binary floating point depends on how the sum was rounded (a comparison with a
\* threshold the exact score equals, round() of a score half way between two
\* hundredths) both outcomes are taken.

\* The longest auth_methods list.
MaxMethods == 2

\* Optional[int] / Optional[float] = None
NoValue == -1

\* Traffic volume thresholds (requests/day)
LOW_TRAFFIC == 10000
MEDIUM_TRAFFIC == 100000
HIGH_TRAFFIC == 1000000
CRITICAL_TRAFFIC == 10000000

\* Error rate thresholds, in thousandths
LOW_ERROR_RATE == 1
MEDIUM_ERROR_RATE == 10
HIGH_ERROR_RATE == 50

\* Latency thresholds (ms)
LOW_LATENCY == 100
MEDIUM_LATENCY == 500
HIGH_LATENCY == 2000

\* class BusinessCriticality, and business_criticality = None
BusinessCriticality == {"LOW", "MEDIUM", "HIGH", "CRITICAL"}
NoCriticality == "None"

\* The inputs of the model: a value below, at and between the thresholds.
RequestCounts == {0, 1, LOW_TRAFFIC, MEDIUM_TRAFFIC, HIGH_TRAFFIC, CRITICAL_TRAFFIC}
ErrorRates == {0, LOW_ERROR_RATE, MEDIUM_ERROR_RATE, HIGH_ERROR_RATE}
Latencies == {0, LOW_LATENCY, MEDIUM_LATENCY, HIGH_LATENCY}
Dependencies == {0, 1, 6, 11}
\* "MTLS" is a name in upper case, "ldap" one the table does not hold.
AuthMethods == {"api-key", "MTLS", "ldap"}

\* traffic_pattern = None, or a TrafficPattern (the fields calculate_risk reads)
NoPattern ==
  [present |-> FALSE, avg_requests_per_day |-> NoValue, error_rate |-> NoValue,
   p95_latency_ms |-> NoValue]
TrafficPatterns ==
  [present : {TRUE}, avg_requests_per_day : RequestCounts \cup {NoValue},
   error_rate : ErrorRates \cup {NoValue}, p95_latency_ms : Latencies \cup {NoValue}]

\* _calculate_traffic_risk: `not avg_requests_per_day` holds of None and of 0.
TrafficRisk(traffic_pattern) ==
  IF ~traffic_pattern.present
     \/ traffic_pattern.avg_requests_per_day = NoValue
     \/ traffic_pattern.avg_requests_per_day = 0
    THEN 50
  ELSE LET req_per_day == traffic_pattern.avg_requests_per_day
       IN  IF req_per_day >= CRITICAL_TRAFFIC THEN 100
           ELSE IF req_per_day >= HIGH_TRAFFIC THEN 80
           ELSE IF req_per_day >= MEDIUM_TRAFFIC THEN 50
           ELSE IF req_per_day >= LOW_TRAFFIC THEN 30
           ELSE 10

Min(a, b) == IF a <= b THEN a ELSE b
Max(a, b) == IF a >= b THEN a ELSE b

\* _calculate_performance_risk
PerformanceRiskSkipsAbsent(traffic_pattern) ==
  IF ~traffic_pattern.present THEN 30
  ELSE LET error_rate == traffic_pattern.error_rate
           p95 == traffic_pattern.p95_latency_ms
           errors == IF error_rate >= HIGH_ERROR_RATE THEN 50
                     ELSE IF error_rate >= MEDIUM_ERROR_RATE THEN 25
                     ELSE IF error_rate >= LOW_ERROR_RATE THEN 10
                     ELSE 0
           latency == IF p95 >= HIGH_LATENCY THEN 50
                      ELSE IF p95 >= MEDIUM_LATENCY THEN 25
                      ELSE IF p95 >= LOW_LATENCY THEN 10
                      ELSE 0
       IN  Min(errors + latency, 100)
PerformanceRisk(traffic_pattern) ==
  IF ~traffic_pattern.present THEN 30
  ELSE LET error_rate == traffic_pattern.error_rate
           p95 == traffic_pattern.p95_latency_ms
           errors == IF error_rate = NoValue THEN 15
                     ELSE IF error_rate >= HIGH_ERROR_RATE THEN 50
                     ELSE IF error_rate >= MEDIUM_ERROR_RATE THEN 25
                     ELSE IF error_rate >= LOW_ERROR_RATE THEN 10
                     ELSE 0
           latency == IF p95 = NoValue THEN 15
                      ELSE IF p95 >= HIGH_LATENCY THEN 50
                      ELSE IF p95 >= MEDIUM_LATENCY THEN 25
                      ELSE IF p95 >= LOW_LATENCY THEN 10
                      ELSE 0
       IN  Min(errors + latency, 100)

\* method.lower()
Lower(method) == IF method = "MTLS" THEN "mtls" ELSE method

\* auth_complexity.get(method_lower, 0.5)
AuthComplexity(method_lower) ==
  CASE method_lower = "none" -> 10
    [] method_lower = "api-key" -> 20
    [] method_lower = "http-basic" -> 20
    [] method_lower = "jwt" -> 50
    [] method_lower = "oauth" -> 70
    [] method_lower = "oauth2" -> 70
    [] method_lower = "mtls" -> 90
    [] method_lower = "saml" -> 80
    [] method_lower = "custom" -> 100
    [] OTHER -> 50

\* The loop of _calculate_auth_risk, lines 265-269.
RECURSIVE MaxComplexity(_, _)
MaxComplexity(auth_methods, max_complexity) ==
  IF auth_methods = <<>> THEN max_complexity
  ELSE MaxComplexity(Tail(auth_methods),
                     Max(max_complexity, AuthComplexity(Lower(Head(auth_methods)))))

\* _calculate_auth_risk: None and the empty list take the first branch.
AuthRiskOfLast(auth_methods) ==
  IF auth_methods = <<>> THEN 10
  ELSE AuthComplexity(Lower(auth_methods[Len(auth_methods)]))
AuthRisk(auth_methods) ==
  IF auth_methods = <<>> THEN 10 ELSE MaxComplexity(auth_methods, 0)

\* _calculate_complexity_risk
ComplexityRisk(num_dependencies, has_custom_middleware) ==
  LET deps == IF num_dependencies > 10 THEN 80
              ELSE IF num_dependencies > 5 THEN 50
              ELSE IF num_dependencies > 0 THEN 20
              ELSE 0
      middleware == IF has_custom_middleware THEN 50 ELSE 0
  IN  Min(deps + middleware, 100)

\* lines 137-142: the weighted sum, in thousandths
WeightedScore(args) ==
  TrafficRisk(args.traffic_pattern) * 4
    + PerformanceRisk(args.traffic_pattern) * 3
    + AuthRisk(args.auth_methods) * 2
    + ComplexityRisk(args.num_dependencies, args.has_custom_middleware) * 1

\* criticality_multiplier, in tenths
CriticalityMultiplierFlat(business_criticality) == 10
CriticalityMultiplier(business_criticality) ==
  CASE business_criticality = "LOW" -> 8
    [] business_criticality = "MEDIUM" -> 10
    [] business_criticality = "HIGH" -> 12
    [] business_criticality = "CRITICAL" -> 15

\* lines 137-153: overall_score before it is rounded, in ten-thousandths.  The
\* multiplier and the cap apply only when a criticality is given.
OverallScore(args) ==
  IF args.business_criticality # NoCriticality
    THEN Min(WeightedScore(args) * CriticalityMultiplier(args.business_criticality),
             10000)
    ELSE WeightedScore(args) * 10

\* _score_to_risk_level: the levels the comparisons can yield for a score that is
\* exactly `score`; a sum that equals a threshold may come out just below it.
Level(score) ==
  IF score >= 7500 THEN "CRITICAL"
  ELSE IF score >= 5000 THEN "HIGH"
  ELSE IF score >= 2500 THEN "MEDIUM"
  ELSE "LOW"
ScoreToRiskLevel(score) ==
  {Level(score)} \cup (IF score \in {2500, 5000, 7500} THEN {Level(score - 1)} ELSE {})

\* round(overall_score, 2), in hundredths: the nearest hundredth, either neighbour
\* when the exact score lies half way.
Round2(score) ==
  LET q == score \div 100
      r == score % 100
  IN  IF r < 50 THEN {q} ELSE IF r > 50 THEN {q + 1} ELSE {q, q + 1}

\* _generate_recommendations (has_traffic_spikes keeps its default, False)
GenerateRecommendationsStandard(risk_level, auth_methods) ==
  <<"Standard mirroring (24 hours)",
    "Standard canary phases (5%, 25%, 50%, 100%)">>
GenerateRecommendations(risk_level, auth_methods) ==
  (CASE risk_level = "CRITICAL" ->
          <<"Deploy with extended traffic mirroring (7+ days)",
            "Use smallest canary increments (1%, 3%, 5%)",
            "Require multiple approvers",
            "Schedule during low-traffic window">>
     [] risk_level = "HIGH" ->
          <<"Extended mirroring period (3-5 days)",
            "Conservative canary rollout",
            "Monitor closely during migration">>
     [] risk_level = "MEDIUM" ->
          <<"Standard mirroring (24 hours)",
            "Standard canary phases (5%, 25%, 50%, 100%)">>
     [] OTHER ->
          <<"Fast-track migration candidate",
            "Standard or accelerated rollout">>)
  \o (IF \E i \in DOMAIN auth_methods :
            Lower(auth_methods[i]) \in {"oauth", "mtls", "saml"}
        THEN <<"Thoroughly test auth flows in staging",
               "Validate token handling and expiration">>
        ELSE <<>>)

NoScore ==
  [present |-> FALSE, overall_score |-> 0, risk_level |-> "None",
   business_criticality |-> NoCriticality, traffic_risk |-> 0,
   performance_risk |-> 0, auth_risk |-> 0, recommendations |-> <<>>]

\* The RiskScore objects calculate_risk may return for args.
RiskScores(args) ==
  { [present |-> TRUE, overall_score |-> rounded, risk_level |-> level,
     business_criticality |->
       IF args.business_criticality = NoCriticality THEN "MEDIUM"
       ELSE args.business_criticality,
     traffic_risk |-> TrafficRisk(args.traffic_pattern),
     performance_risk |-> PerformanceRisk(args.traffic_pattern),
     auth_risk |-> AuthRisk(args.auth_methods),
     recommendations |-> GenerateRecommendations(level, args.auth_methods)]
    : rounded \in Round2(OverallScore(args)),
      level \in ScoreToRiskLevel(OverallScore(args)) }

\* calculate_risk
CalculateRisk ==
  /\ UNCHANGED notRiskVars
  /\ ~risk_score.present
  /\ risk_score' \in RiskScores(risk_args)
  /\ UNCHANGED risk_args

NoRiskArgs ==
  [traffic_pattern |-> NoPattern, auth_methods |-> <<>>,
   business_criticality |-> NoCriticality, num_dependencies |-> 0,
   has_custom_middleware |-> FALSE]

InitRiskIdle ==
  /\ risk_args = NoRiskArgs
  /\ risk_score = NoScore

\* The calls with the traffic and the authentication of the documented example
\* (12,000,000 requests a day, error rate 0.06, p95 latency 2500 ms, oauth).
ExampleArgs ==
  [traffic_pattern : {[present |-> TRUE, avg_requests_per_day |-> 12000000,
                       error_rate |-> 60, p95_latency_ms |-> 2500]},
   auth_methods : {<<"oauth">>},
   business_criticality : BusinessCriticality \cup {NoCriticality},
   num_dependencies : Dependencies,
   has_custom_middleware : BOOLEAN]

\* Any call of calculate_risk.
InitRisk ==
  /\ risk_args \in
       [traffic_pattern : TrafficPatterns \cup {NoPattern},
        auth_methods : ListsUpTo(AuthMethods, MaxMethods),
        business_criticality : BusinessCriticality \cup {NoCriticality},
        num_dependencies : Dependencies,
        has_custom_middleware : BOOLEAN]
       \cup ExampleArgs
  /\ risk_score = NoScore

InitStateVars ==
  /\ clock = 0
  /\ states = [a \in ApiIds |-> NoState]
  /\ last = [op |-> "none", api_id |-> "none", result |-> "none"]
  /\ canaryRun = [a \in ApiIds |-> <<>>]

InitLockVars ==
  /\ sweep = NoSweep
  /\ lockKey = [k \in Keys |-> NoLock]
  /\ info = [k \in Keys |-> NoInfo]
  /\ pc = [t \in Teams |-> "idle"]
  /\ arg = [t \in Teams |-> NoArg]
  /\ ret = NoRet
  /\ epoch = [k \in Keys |-> NoEpoch]

vars == <<lockVars, stateVars, discVars, call, filterVars, riskVars, sweep>>

\* ------------------------------------------------------------ specifications
InitLock == InitLockVars /\ InitStateVars /\ InitDiscIdle /\ InitCall /\ InitFilterIdle /\ InitRiskIdle

NextLock ==
  \/ \E t \in Teams, k \in Keys, timeout \in Timeouts : AcquireLockCall(t, k, timeout)
  \/ \E t \in Teams, k \in Keys, timeout \in Timeouts : LockScopeCall(t, k, timeout)
  \/ \E t \in Teams : AcquireSet(t)
  \/ \E t \in Teams : AcquireConflict(t)
  \/ \E t \in Teams : AcquireHSet(t)
  \/ \E t \in Teams : AcquireExpireInfo(t)
  \/ \E t \in Teams, raises \in BOOLEAN : ScopeBodyEnds(t, raises)
  \/ \E t \in Teams : ScopeFinally(t)
  \/ \E t \in Teams, k \in Keys : ReleaseLockCall(t, k)
  \/ \E t \in Teams : ReleaseDelete(t)
  \/ \E t \in Teams, k \in Keys, timeout \in Timeouts : RenewLockCall(t, k, timeout)
  \/ \E t \in Teams : RenewOwns(t)
  \/ \E t \in Teams : RenewExpire(t)
  \/ \E t \in Teams : RenewHSet(t)
  \/ \E t \in Teams : RenewExpireInfo(t)
  \/ Tick

SpecLock == InitLock /\ [][NextLock]_vars

\* One team may hold the pair while another waits for it in a blocking acquire.
NextBlocking ==
  \/ \E t \in Teams, k \in Keys, timeout \in Timeouts : AcquireLockCall(t, k, timeout)
  \/ \E t \in Teams, k \in Keys, blocking_timeout \in 1..MaxBlockingTimeout :
       AcquireBlockingCall(t, k, MaxTimeout, blocking_timeout)
  \/ \E t \in Teams : AcquirePoll(t)
  \/ \E t \in Teams : AcquireSet(t)
  \/ \E t \in Teams : AcquireConflict(t)
  \/ \E t \in Teams : AcquireHSet(t)
  \/ \E t \in Teams : AcquireExpireInfo(t)
  \/ \E t \in Teams, k \in Keys : ReleaseLockCall(t, k)
  \/ \E t \in Teams : ReleaseDelete(t)
  \/ TickBlocking

SpecBlocking == InitLock /\ [][NextBlocking]_vars

\* Locks that are taken and run out, and the cleanup pass.
NextCleanup ==
  \/ \E t \in Teams, k \in Keys, timeout \in Timeouts : AcquireLockCall(t, k, timeout)
  \/ \E t \in Teams : AcquireSet(t)
  \/ \E t \in Teams : AcquireConflict(t)
  \/ \E t \in Teams : AcquireHSet(t)
  \/ \E t \in Teams : AcquireExpireInfo(t)
  \/ Tick
  \/ CleanupCall
  \/ \E key \in ScanKeys : CleanupScan(key)
  \/ CleanupExists
  \/ CleanupDelete
  \/ CleanupReturn

SpecCleanup == InitLock /\ [][NextCleanup]_vars

InitState == InitLockVars /\ InitStateVars /\ InitDiscIdle /\ InitCall /\ InitFilterIdle /\ InitRiskIdle

NextState ==
  \/ \E a \in DiscoveredIds, s \in MigrationStatus : CreateState(a, s)
  \/ \E a \in DiscoveredIds, s \in MigrationStatus, r \in Reasons, kw \in KwargsChoices :
       Transition(a, s, r, kw)
  \/ \E a \in DiscoveredIds, r \in Reasons : AdvanceCanary(a, r)
  \/ \E a \in DiscoveredIds : Rollback(a, "manual")
  \/ \E a \in DiscoveredIds : Fail(a, "manual")
  \/ ClockTick

SpecState == InitState /\ [][NextState]_vars

\* The tracker called for every api id, those without a record included.
NextLookup ==
  \/ \E a \in DiscoveredIds, s \in MigrationStatus : CreateState(a, s)
  \/ \E a \in ApiIds, s \in MigrationStatus : Transition(a, s, "manual", NoKwargs)
  \/ \E a \in ApiIds, r \in Reasons : AdvanceCanary(a, r)
  \/ \E a \in ApiIds : Rollback(a, "manual")
  \/ \E a \in ApiIds : Fail(a, "manual")
  \/ ClockTick

SpecLookup == InitState /\ [][NextLookup]_vars

InitDiscovery ==
  InitLockVars /\ InitStateVars /\ InitDisc /\ InitCall /\ InitFilterIdle /\ InitRiskIdle

NextDiscovery ==
  \/ DiscoverAll
  \/ \E p \in Platforms : TaskStart(p)
  \/ \E p \in Platforms : TaskConnect(p)
  \/ \E p \in Platforms : TaskDiscover(p)
  \/ \E p \in Platforms : Collect(p)
  \/ DiscoverAllReturns

SpecDiscovery == InitDiscovery /\ [][NextDiscovery]_vars

\* A run in which a connector may also never answer.  The threads of the pool and
\* the main thread keep running: a step that can be taken is taken in the end.
InitDeadline ==
  /\ InitLockVars /\ InitStateVars /\ InitCall /\ InitFilterIdle /\ InitRiskIdle
  /\ connectors \in SUBSET Platforms
  /\ behaviour \in [Platforms -> Behaviours \cup HangBehaviours]
  /\ \A p \in Platforms \ connectors : behaviour[p] = [kind |-> "ok", at |-> "connect"]
  /\ max_workers \in 1..MaxWorkers
  /\ queue = <<>>
  /\ task = [p \in Platforms |-> NoTask]
  /\ results = [p \in Platforms |-> NoResult]
  /\ mainPc = "new"

SpecDeadline == InitDeadline /\ [][NextDiscovery]_vars /\ WF_vars(NextDiscovery)

\* The filtering of what one connector returned.
InitFiltering ==
  InitLockVars /\ InitStateVars /\ InitDiscIdle /\ InitCall /\ InitFilter /\ InitRiskIdle

NextFilter == ApplyFilters

SpecFilter == InitFiltering /\ [][NextFilter]_vars

\* The calls of the risk scorer.
InitScoring ==
  InitLockVars /\ InitStateVars /\ InitDiscIdle /\ InitCall /\ InitFilterIdle /\ InitRisk

NextRisk == CalculateRisk

SpecRisk == InitScoring /\ [][NextRisk]_vars

\* Every mutating tracker call of an API is made inside lock() on the API's pair.
\* The targets the teams name in transition: with advance_canary, rollback and
\* fail they take a record through every status but DECOMMISSIONED.
SerializedTargets == {"PLANNED", "VALIDATED", "DEPLOYED_MIRROR", "DISCOVERED"}

NextSerialized ==
  \/ \E a \in DiscoveredIds : CreateOnDiscovery(a)
  \/ \E t \in Teams, k \in Keys : LockScopeCall(t, k, MaxTimeout)
  \/ \E t \in Teams : AcquireSet(t)
  \/ \E t \in Teams : AcquireConflict(t)
  \/ \E t \in Teams : AcquireHSet(t)
  \/ \E t \in Teams : AcquireExpireInfo(t)
  \/ \E t \in Teams, op \in {"transition", "advance_canary", "rollback", "fail"},
         target \in SerializedTargets :
       TrackerCall(t, op, target)
  \/ \E t \in Teams : CallAdvance(t)
  \/ \E t \in Teams : CallLookup(t)
  \/ \E t \in Teams : CallSetPrevious(t)
  \/ \E t \in Teams : CallSetStatus(t)
  \/ \E t \in Teams : CallFinish(t)
  \/ \E t \in Teams, raises \in BOOLEAN : ScopeBodyEnds(t, raises)
  \/ \E t \in Teams : ScopeFinally(t)
  \/ TickWithinTTL

SpecSerialized == InitLock /\ [][NextSerialized]_vars

\* Teams that call transition on one API at the same time, none holding the lock.
NextUnlocked ==
  \/ \E a \in DiscoveredIds : CreateOnDiscovery(a)
  \/ \E t \in Teams, target \in SerializedTargets :
       UnlockedCall(t, "api-1", target)
  \/ \E t \in Teams : CallLookup(t)
  \/ \E t \in Teams : CallSetPrevious(t)
  \/ \E t \in Teams : CallSetStatus(t)
  \/ \E t \in Teams : CallFinish(t)

SpecUnlocked == InitLock /\ [][NextUnlocked]_vars

\* ==================================================================== claims
\* ----------------------------------------------------------------------- C1
\* C1: mutual exclusion.  Since the primary key of a pair last ceased to exist, the
\* set-if-absent of at most one team has succeeded on it, of exactly one as soon
\* as any team's acquire_lock has run it, and the primary key the store holds
\* is the one that team created: one lock per pair at any moment.
MutualExclusion ==
  \A k \in Keys :
    /\ Cardinality(epoch[k].won) <= 1
    /\ epoch[k].tried # {} => Cardinality(epoch[k].won) = 1
    /\ epoch[k].won # {} => lockKey[k] # NoLock /\ epoch[k].won = {lockKey[k].token}
    /\ lockKey[k] # NoLock => epoch[k].won = {lockKey[k].token}

\* Both teams ran their set-if-absent on the same absent key; one of them won.
BothTriedOneWon ==
  \E k \in Keys : epoch[k].tried = Teams /\ Cardinality(epoch[k].won) = 1

\* ----------------------------------------------------------------------- C5
\* C5: when renew_lock reaches its ownership check and the metadata hash of the pair
\* does not exist or names another team, the call returns False and neither the
\* primary key nor the metadata hash (existence, holder, expiry) changes.
RenewByNonOwnerRefused ==
  [][\A t \in Teams :
       (/\ pc[t] = "ren_owns"
        /\ pc'[t] # "ren_owns"
        /\ ~(info[arg[t].key].exists /\ info[arg[t].key].team = t))
       => /\ pc'[t] = "idle"
          /\ ret' = Ret(t, "renew_lock", arg[t].key, FALSE, "none", NoConflict, "none")
          /\ lockKey' = lockKey
          /\ info' = info]_vars

\* A renew_lock has just returned False to a team while the other team held the
\* primary key and was named by the metadata hash.
NonOwnerRenewReturnedFalse ==
  /\ ret.op = "renew_lock"
  /\ ~ret.ok
  /\ lockKey[ret.key] # NoLock
  /\ lockKey[ret.key].token # ret.team
  /\ info[ret.key].exists
  /\ info[ret.key].team \in Teams \ {ret.team}
  /\ info[ret.key].ttl # NoTime

\* ----------------------------------------------------------------------- C6
\* C6: the expire(lock_key) of renew_lock finds and extends a primary key only when
\* that key was created by an acquire of the caller's own team.
RenewExtendsOwnLockOnly ==
  [][\A t \in Teams :
       (pc[t] = "ren_expire" /\ pc'[t] = "ren_hset")
       => lockKey[arg[t].key].token = t]_vars

\* ----------------------------------------------------------------------- C7
\* C7: when lock() leaves its scope, after the caller's action returned or raised,
\* the primary key and the metadata hash of the pair are gone, and what leaves
\* lock() is the action's exception when it raised one, nothing otherwise.
ScopeExitReleases ==
  [][\A t \in Teams :
       (pc[t] = "finally" /\ pc'[t] # "finally")
       => /\ lockKey'[arg[t].key] = NoLock
          /\ info'[arg[t].key] = NoInfo
          /\ pc'[t] = "idle"
          /\ ret' = Ret(t, "lock", arg[t].key, TRUE, arg[t].exc, NoConflict, "none")]_vars

\* ScopeBodyEnds hands the action's outcome on unchanged: an exception when it raised.
\* lock() has just been left by an exception of the action: both keys are gone.
ScopeLeftByException ==
  /\ ret.op = "lock"
  /\ ret.ok
  /\ ret.exc = "ActionError"
  /\ lockKey[ret.key] = NoLock
  /\ info[ret.key] = NoInfo
  /\ pc[ret.team] = "idle"

\* ----------------------------------------------------------------------- C8
\* C8: the conflict information of every failed acquire_lock names the team whose
\* primary key made the set-if-absent fail.
ConflictNamesHolder ==
  (ret.op \in {"acquire_lock", "lock"} /\ ~ret.ok)
    => (ret.conflict.named /\ ret.conflict.owner = ret.holder)

\* ----------------------------------------------------------------------- C2
\* C2: whatever record the tracker holds, a transition of it to a status in the
\* allowed-edge set of its current status, with no extra field naming status or
\* previous_status, succeeds and leaves status = target and previous_status = the
\* status before the call.
ValidTransitionSucceeds ==
  \A a \in ApiIds, r \in Reasons, kw \in KwargsChoices :
    (states[a].exists /\ ~Has(kw, "status") /\ ~Has(kw, "previous_status"))
    => \A target \in VALID_TRANSITIONS(states[a].status) :
         LET out == TransitionOutcome(a, target, r, kw)
         IN  /\ out.result = "ok"
             /\ out.state.status = target
             /\ out.state.previous_status = states[a].status

\* A transition has just moved a record from DISCOVERED to PLANNED.
MovedToPlanned ==
  \E a \in ApiIds :
    /\ last = [op |-> "transition", api_id |-> a, result |-> "ok"]
    /\ states[a].status = "PLANNED"
    /\ states[a].previous_status = "DISCOVERED"

\* ----------------------------------------------------------------------- C3
\* C3: whatever record the tracker holds, a transition of it to a status outside the
\* allowed-edge set of its current status (the current status itself included)
\* raises StateTransitionError and leaves every field of the record as it was,
\* whatever extra fields the call names.
InvalidTransitionRejected ==
  \A a \in ApiIds, r \in Reasons, kw \in KwargsChoices :
    states[a].exists
    => \A target \in MigrationStatus \ VALID_TRANSITIONS(states[a].status) :
         TransitionOutcome(a, target, r, kw) =
           [result |-> "StateTransitionError", state |-> states[a]]

\* A transition of an existing record has just been refused, the record having
\* made a transition before.
RefusedAfterTransition ==
  \E a \in ApiIds :
    /\ last = [op |-> "transition", api_id |-> a, result |-> "StateTransitionError"]
    /\ states[a].exists
    /\ states[a].previous_status # NoStatus

\* ----------------------------------------------------------------------- C4
\* C4: create_state for an api_id that already has a record leaves that record as
\* it is.
CreateStateIdempotent ==
  [][\A a \in ApiIds, initial_status \in MigrationStatus :
       (CreateState(a, initial_status) /\ states[a].exists)
       => states'[a] = states[a]]_vars

\* ----------------------------------------------------------------------- C9
\* The statuses and traffic percentages along the canary progression.
ExpectedStatus == <<"CANARY_5", "CANARY_25", "CANARY_50", "CANARY_75", "COMPLETED">>
ExpectedPct == <<5, 25, 50, 75, 100>>

\* C9, amended: from a record in DEPLOYED_MIRROR, the first to fifth advance_canary
\* in a row succeed and leave CANARY_5/5, CANARY_25/25, CANARY_50/50, CANARY_75/75
\* and COMPLETED/100; the sixth and every later one raise StateTransitionError and
\* leave the record in COMPLETED at 100.
CanaryRunOfFive ==
  \A a \in ApiIds :
    LET run == canaryRun[a]
    IN  run # <<>> =>
          /\ run[1].status = "DEPLOYED_MIRROR"
          /\ \A i \in 2..Len(run) :
               IF i <= 6
                 THEN /\ run[i].ok
                      /\ run[i].status = ExpectedStatus[i - 1]
                      /\ run[i].pct = ExpectedPct[i - 1]
                 ELSE /\ ~run[i].ok
                      /\ run[i].status = "COMPLETED"
                      /\ run[i].pct = 100

\* Six advance_canary calls in a row have been made on a record that was in
\* DEPLOYED_MIRROR at 0 percent.
SixCallsMade ==
  \E a \in ApiIds :
    /\ Len(canaryRun[a]) >= 7
    /\ canaryRun[a][1].pct = 0
    /\ states[a].status = "COMPLETED"

\* C9 as stated: the first six advance_canary calls in a row from DEPLOYED_MIRROR all
\* succeed, the sixth reaching COMPLETED, and the seventh fails.
CanaryRunOfSix ==
  \A a \in ApiIds :
    LET run == canaryRun[a]
    IN  /\ Len(run) >= 7 => /\ \A i \in 2..7 : run[i].ok
                            /\ run[7].status = "COMPLETED"
        /\ Len(run) >= 8 => ~run[8].ok

\* ---------------------------------------------------------------------- C10
\* C10: after every successful transition, advance_canary, rollback or fail the
\* record's current_traffic_percentage is the percentage of its status.
TrafficMatchesStatus ==
  \A a \in ApiIds :
    (/\ last.api_id = a
     /\ last.op \in {"transition", "advance_canary", "rollback", "fail"}
     /\ last.result = "ok")
    => states[a].current_traffic_percentage =
         (CASE states[a].status = "CANARY_5" -> 5
            [] states[a].status = "CANARY_25" -> 25
            [] states[a].status = "CANARY_50" -> 50
            [] states[a].status = "CANARY_75" -> 75
            [] states[a].status = "COMPLETED" -> 100
            [] OTHER -> 0)

\* ---------------------------------------------------------------------- C11
\* C11: DECOMMISSIONED is terminal: a record whose status is DECOMMISSIONED keeps
\* that status through every later call of the tracker.
DecommissionedIsTerminal ==
  [][\A a \in ApiIds :
       (states[a].exists /\ states[a].status = "DECOMMISSIONED")
       => (states'[a].exists /\ states'[a].status = "DECOMMISSIONED")]_vars

\* ---------------------------------------------------------------------- C12
\* C12: whatever record in FAILED the tracker holds, a transition of it to
\* DISCOVERED succeeds, and a transition to any other status (FAILED itself,
\* ROLLED_BACK and the canary statuses included) raises StateTransitionError and
\* leaves the record as it was.
FailedOnlyToDiscovered ==
  \A a \in ApiIds, r \in Reasons, kw \in KwargsChoices :
    (states[a].exists /\ states[a].status = "FAILED")
    => \A target \in MigrationStatus :
         LET out == TransitionOutcome(a, target, r, kw)
         IN  IF target = "DISCOVERED"
               THEN /\ out.result = "ok"
                    /\ ~Has(kw, "status") => out.state.status = "DISCOVERED"
               ELSE out = [result |-> "StateTransitionError", state |-> states[a]]

\* A transition of a record in FAILED has just been refused.
RefusedFromFailed ==
  \E a \in ApiIds :
    /\ last = [op |-> "transition", api_id |-> a, result |-> "StateTransitionError"]
    /\ states[a].exists
    /\ states[a].status = "FAILED"
    /\ states[a].previous_status # NoStatus

\* ---------------------------------------------------------------------- C18
\* C18: whatever record the tracker holds in a status outside the canary
\* progression (DISCOVERED, PLANNED, VALIDATED, ROLLED_BACK, FAILED,
\* DECOMMISSIONED), advance_canary on it raises StateTransitionError and leaves
\* every field of the record as it was.
AdvanceOffProgressionRejected ==
  \A a \in ApiIds, r \in Reasons :
    (/\ states[a].exists
     /\ states[a].status \in
          {"DISCOVERED", "PLANNED", "VALIDATED", "ROLLED_BACK", "FAILED", "DECOMMISSIONED"})
    => AdvanceOutcome(a, r) = [result |-> "StateTransitionError", state |-> states[a]]

\* advance_canary has just been refused on a record that had been rolled back.
AdvanceRefusedAfterRollback ==
  \E a \in ApiIds :
    /\ last = [op |-> "advance_canary", api_id |-> a, result |-> "StateTransitionError"]
    /\ states[a].exists
    /\ states[a].status = "ROLLED_BACK"
    /\ states[a].previous_status # NoStatus

\* ---------------------------------------------------------------------- C19
\* C19: a transition, advance_canary, rollback or fail on an api id without a
\* record raises ValueError and leaves the whole store as it was: no record is
\* created for the id and no other record changes.
NotFoundLeavesStore ==
  [][\A a \in ApiIds :
       (/\ ~states[a].exists
        /\ last'.api_id = a
        /\ last'.op \in {"transition", "advance_canary", "rollback", "fail"})
       => /\ last'.result = "ValueError"
          /\ states' = states]_vars

\* A call on an api id without a record has just raised ValueError while the
\* tracker held the record of another id, one that had made a transition.
NotFoundBesideRecord ==
  \E a, b \in ApiIds :
    /\ a # b
    /\ last.api_id = a
    /\ last.op \in {"transition", "advance_canary", "rollback", "fail"}
    /\ last.result = "ValueError"
    /\ ~states[a].exists
    /\ states[b].exists
    /\ states[b].previous_status # NoStatus

\* ---------------------------------------------------------------------- C20
\* C20, amended: fail (a transition to FAILED) succeeds and leaves FAILED from each
\* of DISCOVERED, PLANNED, VALIDATED, DEPLOYED_MIRROR, CANARY_5, CANARY_25,
\* CANARY_50 and CANARY_75; from COMPLETED it raises StateTransitionError and
\* leaves the record as it was.
FailForwardBeforeCompleted ==
  \A a \in ApiIds, r \in Reasons :
    states[a].exists
    => LET out == TransitionOutcome(a, "FAILED", r, NoKwargs)
       IN  /\ states[a].status \in
                {"DISCOVERED", "PLANNED", "VALIDATED", "DEPLOYED_MIRROR",
                 "CANARY_5", "CANARY_25", "CANARY_50", "CANARY_75"}
              => (out.result = "ok" /\ out.state.status = "FAILED")
           /\ states[a].status = "COMPLETED"
              => out = [result |-> "StateTransitionError", state |-> states[a]]

\* fail has just moved a record from CANARY_75 to FAILED.
FailedFromCanary75 ==
  \E a \in ApiIds :
    /\ last = [op |-> "fail", api_id |-> a, result |-> "ok"]
    /\ states[a].status = "FAILED"
    /\ states[a].previous_status = "CANARY_75"

\* C20 as stated: fail succeeds from every status of the forward progression,
\* COMPLETED included.
FailForwardFromAll ==
  \A a \in ApiIds, r \in Reasons :
    (/\ states[a].exists
     /\ states[a].status \in
          {"DISCOVERED", "PLANNED", "VALIDATED", "DEPLOYED_MIRROR",
           "CANARY_5", "CANARY_25", "CANARY_50", "CANARY_75", "COMPLETED"})
    => LET out == TransitionOutcome(a, "FAILED", r, NoKwargs)
       IN  out.result = "ok" /\ out.state.status = "FAILED"

\* ---------------------------------------------------------------------- C13
\* C13: when discover_all has returned, a source whose first call raised and whose
\* second would succeed has a success=true entry, a source that raises on every
\* call has been tried exactly three times, and no source more than three times.
RetriedUpToThree ==
  mainPc = "done"
  => \A p \in connectors :
       /\ behaviour[p].kind = "flaky" => results[p].success
       /\ behaviour[p].kind = "down" => task[p].attempt = stop_after_attempt
       /\ task[p].attempt <= stop_after_attempt

\* ---------------------------------------------------------------------- C14
\* C14: when discover_all has returned, the map has exactly one entry per configured
\* source; the entry of a source that raises on every attempt has success=false,
\* total_discovered=0 and no APIs, and the entry of every other source has
\* success=true and holds the source's APIs.
FailureIsolation ==
  (mainPc = "done" /\ \E d \in connectors : behaviour[d].kind = "down")
  => /\ {p \in Platforms : results[p].present} = connectors
     /\ \A p \in connectors :
          /\ results[p].platform = p
          /\ IF behaviour[p].kind = "down"
               THEN /\ ~results[p].success
                    /\ results[p].total_discovered = 0
                    /\ results[p].apis = {}
               ELSE /\ results[p].success
                    /\ results[p].apis = ApisOf(p)

\* ---------------------------------------------------------------------- C15
\* C15: at every moment of a discover_all run at most max_workers source queries
\* are in flight, and when the run has returned every configured source has
\* been queried.
InFlightBounded ==
  /\ Cardinality(InFlight) <= max_workers
  /\ mainPc = "done" => \A p \in connectors : task[p].connects >= 1

\* Three sources are configured for two workers: two queries are in flight and
\* the third waits in the queue.
ThirdSourceWaits ==
  /\ connectors = Platforms
  /\ Cardinality(InFlight) = max_workers
  /\ max_workers < Cardinality(connectors)
  /\ queue # <<>>

\* ---------------------------------------------------------------------- C16
\* What it is for every reader to treat the lock of a pair as absent.
ReadsAsAbsent(k) ==
  /\ ~IsLocked(k)
  /\ \A t \in Teams : ~OwnsLock(t, k)
  /\ GetLockInfo(k) = NoInfo
  /\ \A team \in Teams \cup {"None"} : k \notin ListActiveLocks(team)
  /\ \A t \in Teams, timeout \in Timeouts : SetNX(lockKey, k, t, timeout).ok

\* C16: once the primary key of a pair has ceased to exist because its TTL elapsed,
\* every reader treats the lock as absent: is_locked is false, owns_lock is
\* false for every team, get_lock_info returns None, list_active_locks omits the
\* pair and the set-if-absent of an acquire_lock by any team succeeds.
ExpiredLockReadsAbsent ==
  [][\A k \in Keys :
       (lockKey[k] # NoLock /\ lockKey'[k] = NoLock /\ pc' = pc)
       => ReadsAsAbsent(k)']_vars

\* ---------------------------------------------------------------------- C17
\* The teams that have a mutating tracker call in progress.
CallsInProgress == {t \in Teams : call[t].pc # "none"}

\* C17: when every mutating tracker call of an API is made inside lock() on the
\* API's pair and no scope outlasts its TTL, at most one such call is in progress at
\* any time, no other step changes the record while a call is in progress, and a
\* call that returns leaves the record that transition makes, as one step, of
\* the record it found: the record goes through the states of the calls made
\* one after the other.
SerializedUnderLock ==
  [][/\ Cardinality(CallsInProgress') <= 1
     /\ \A t \in Teams :
          (call[t].pc \in {"prev", "status", "rest"} /\ call'[t] = call[t])
          => states' = states
     /\ \A t \in Teams :
          (call[t].pc = "rest" /\ call'[t].pc = "none")
          => states'[call[t].api_id] =
               Updated(call[t].before, call[t].target, call[t].reason,
                       call[t].kwargs)]_vars

\* A team is about to finish a transition to VALIDATED inside lock() while the
\* other team's lock() has found the pair locked.
CallUnderLockWhileOtherRefused ==
  \E t, u \in Teams :
    /\ t # u
    /\ call[t].pc = "rest"
    /\ call[t].target = "VALIDATED"
    /\ pc[u] = "acq_conflict"
    /\ lockKey[arg[t].key].token = t

\* ---------------------------------------------------------------------- C21
\* The outcome of transition to each target is success for the targets in ok and
\* StateTransitionError, the record unchanged, for every other target.
OnlyTargets(a, r, kw, ok) ==
  \A target \in MigrationStatus :
    LET out == TransitionOutcome(a, target, r, kw)
    IN  IF target \in ok
          THEN /\ out.result = "ok"
               /\ ~Has(kw, "status") => out.state.status = target
          ELSE out = [result |-> "StateTransitionError", state |-> states[a]]

\* C21: whatever record the tracker holds, a transition to ROLLED_BACK succeeds from
\* DEPLOYED_MIRROR, CANARY_5, CANARY_25, CANARY_50, CANARY_75 and COMPLETED; from
\* ROLLED_BACK exactly the targets DEPLOYED_MIRROR and FAILED succeed, and from
\* COMPLETED exactly DECOMMISSIONED and ROLLED_BACK.
RollbackEdges ==
  \A a \in ApiIds, r \in Reasons, kw \in KwargsChoices :
    states[a].exists
    => /\ states[a].status \in {"DEPLOYED_MIRROR", "CANARY_5", "CANARY_25", "CANARY_50",
                                "CANARY_75", "COMPLETED"}
          => LET out == TransitionOutcome(a, "ROLLED_BACK", r, kw)
             IN  /\ out.result = "ok"
                 /\ ~Has(kw, "status") => out.state.status = "ROLLED_BACK"
       /\ states[a].status = "ROLLED_BACK"
          => OnlyTargets(a, r, kw, {"DEPLOYED_MIRROR", "FAILED"})
       /\ states[a].status = "COMPLETED"
          => OnlyTargets(a, r, kw, {"DECOMMISSIONED", "ROLLED_BACK"})

\* A completed migration has just been reverted: rollback moved the record from
\* COMPLETED to ROLLED_BACK.
CompletedReverted ==
  \E a \in ApiIds :
    /\ last = [op |-> "rollback", api_id |-> a, result |-> "ok"]
    /\ states[a].status = "ROLLED_BACK"
    /\ states[a].previous_status = "COMPLETED"

\* ---------------------------------------------------------------------- C22
\* C22: when release_lock issues its delete, whichever team calls it and whichever
\* team holds the lock, the primary key and the metadata hash of the pair are gone
\* afterwards, is_locked is false and the set-if-absent of any team succeeds;
\* it returns true when one of the two keys existed and false, with nothing
\* changed, when neither did.
ReleaseIsUnconditional ==
  [][\A t \in Teams, k \in Keys :
       (pc[t] = "rel_del" /\ pc'[t] # "rel_del" /\ arg[t].key = k)
       => /\ lockKey'[k] = NoLock
          /\ info'[k] = NoInfo
          /\ ~IsLocked(k)'
          /\ \A u \in Teams, timeout \in Timeouts : SetNX(lockKey', k, u, timeout).ok
          /\ ret' = Ret(t, "release_lock", k, lockKey[k] # NoLock \/ info[k].exists,
                        "none", NoConflict, "none")
          /\ (lockKey[k] = NoLock /\ ~info[k].exists)
             => (lockKey' = lockKey /\ info' = info)]_vars

\* release_lock of one team has just returned true while the other team is inside
\* its lock() scope on the pair: the lock that team acquired is gone.
ReleasedUnderHolder ==
  \E u \in Teams :
    /\ ret.op = "release_lock"
    /\ ret.ok
    /\ u # ret.team
    /\ pc[u] = "body"
    /\ arg[u].key = ret.key
    /\ lockKey[ret.key] = NoLock
    /\ info[ret.key] = NoInfo

DiscoverAllMeetsDeadline == <>(mainPc = "done")

\* ---------------------------------------------------------------------- C26
\* C26: no call of the tracker removes a record: an api id that has a record has
\* one after every create_state, transition, advance_canary, rollback and fail,
\* whether the call succeeds or raises, and in whatever status the record is.
RecordsNeverDeleted ==
  [][\A a \in ApiIds :
       /\ states[a].exists => states'[a].exists
       /\ (states[a].exists /\ last'.result \notin {"ok", "none"} /\ last' # last)
             => states'[a] = states[a]]_vars

\* A retired record is still there after a call that was refused.
RetiredRecordKept ==
  /\ states["api-1"].exists
  /\ states["api-1"].status \in {"FAILED", "ROLLED_BACK", "DECOMMISSIONED"}
  /\ last.result = "StateTransitionError"

\* ---------------------------------------------------------------------- C25
\* C25: the successful result of a source holds exactly the discovered APIs that
\* the filter's matches() accepts, in the order the source returned them, all of
\* them when no filter is supplied; filtered_count is their number,
\* total_discovered the number the source returned, and filtered_count is no
\* larger than total_discovered.
MatchingApis ==
  IF filter_engine.configured
    THEN SelectSeq(source_apis, LAMBDA api : Matches(filter_engine, ToMetadata(api)))
    ELSE source_apis

ResultHoldsExactlyMatching ==
  platform_result.present
    => /\ platform_result.success
       /\ platform_result.apis = MatchingApis
       /\ platform_result.filtered_count = Len(MatchingApis)
       /\ platform_result.total_discovered = Len(source_apis)
       /\ platform_result.filtered_count <= platform_result.total_discovered

\* ---------------------------------------------------------------------- C27
\* C27: with the other inputs fixed, a call with at least as many requests per
\* day (0 included) yields an overall score at least as high: the score returned
\* for r1 is no more than the largest score a call with r2 >= r1 can return, and
\* the scores before rounding are in that order as well.
WithRequests(args, r) ==
  [args EXCEPT !.traffic_pattern.avg_requests_per_day = r]
MaxOf(S) == CHOOSE x \in S : \A y \in S : y <= x

MonotoneInRequests ==
  (/\ risk_score.present
   /\ risk_args.traffic_pattern.present
   /\ risk_args.traffic_pattern.avg_requests_per_day # NoValue)
    => \A r2 \in RequestCounts :
         r2 >= risk_args.traffic_pattern.avg_requests_per_day
           => /\ OverallScore(risk_args) <= OverallScore(WithRequests(risk_args, r2))
              /\ risk_score.overall_score
                   <= MaxOf(Round2(OverallScore(WithRequests(risk_args, r2))))

\* ---------------------------------------------------------------------- C28
\* C28: the overall score is min(1, (0.4 traffic + 0.3 performance + 0.2 auth
\* + 0.1 complexity) * factor), the factor being 0.8, 1.0, 1.2, 1.5 for LOW,
\* MEDIUM, HIGH, CRITICAL and 1.0 without a criticality, and lies in [0, 1]; so
\* does the score returned.
Factor(business_criticality) ==
  CASE business_criticality = "LOW" -> 8
    [] business_criticality = "MEDIUM" -> 10
    [] business_criticality = "HIGH" -> 12
    [] business_criticality = "CRITICAL" -> 15
    [] OTHER -> 10

OverallScoreIsWeightedAndCapped ==
  risk_score.present
    => LET t == risk_score.traffic_risk
           p == risk_score.performance_risk
           a == risk_score.auth_risk
           c == ComplexityRisk(risk_args.num_dependencies,
                               risk_args.has_custom_middleware)
           capped == Min(10000, (4 * t + 3 * p + 2 * a + c)
                                  * Factor(risk_args.business_criticality))
       IN  /\ OverallScore(risk_args) = capped
           /\ capped \in 0..10000
           /\ risk_score.overall_score \in Round2(capped)
           /\ risk_score.overall_score \in 0..100

\* A call whose weighted sum times the factor exceeds 1, and one without a
\* criticality whose components are all at their maximum.
ScoreCapped ==
  /\ risk_score.present
  /\ risk_args.business_criticality = "CRITICAL"
  /\ WeightedScore(risk_args) * 15 > 10000
  /\ risk_score.overall_score = 100

\* ---------------------------------------------------------------------- C29
\* C29: the risk level returned agrees with the overall score returned: CRITICAL
\* iff the score is at least 0.75, HIGH iff it is in [0.50, 0.75), MEDIUM iff it
\* is in [0.25, 0.50), LOW iff it is below 0.25.
LevelAgreesWithReturnedScore ==
  risk_score.present
    => /\ risk_score.risk_level = "CRITICAL" <=> risk_score.overall_score >= 75
       /\ risk_score.risk_level = "HIGH"
            <=> (risk_score.overall_score >= 50 /\ risk_score.overall_score < 75)
       /\ risk_score.risk_level = "MEDIUM"
            <=> (risk_score.overall_score >= 25 /\ risk_score.overall_score < 50)
       /\ risk_score.risk_level = "LOW" <=> risk_score.overall_score < 25

\* ---------------------------------------------------------------------- C30
\* C30: the auth risk of a non-empty list is the largest complexity of its
\* methods: a method added at either end never lowers it, the order of the
\* methods does not count, and ["mtls"] scores strictly more than ["api-key"].
Reverse(list) == [i \in DOMAIN list |-> list[Len(list) + 1 - i]]

AuthRiskIsMaximum ==
  (risk_score.present /\ risk_args.auth_methods # <<>>)
    => LET methods == risk_args.auth_methods
           complexities == {AuthComplexity(Lower(methods[i])) : i \in DOMAIN methods}
       IN  /\ risk_score.auth_risk = MaxOf(complexities)
           /\ \A m \in AuthMethods :
                /\ AuthRisk(Append(methods, m)) >= risk_score.auth_risk
                /\ AuthRisk(<<m>> \o methods) >= risk_score.auth_risk
           /\ AuthRisk(Reverse(methods)) = risk_score.auth_risk
           /\ AuthRisk(<<"mtls">>) > AuthRisk(<<"api-key">>)

\* A list of two methods scored as its more complex one.
MtlsDominatesApiKey ==
  /\ risk_score.present
  /\ risk_args.auth_methods = <<"api-key", "MTLS">>
  /\ risk_score.auth_risk = 90

\* ---------------------------------------------------------------------- C31
\* C31: calculate_risk returns a score whatever is absent.  Without a traffic
\* pattern or without requests per day traffic_risk is 0.5; an absent error rate
\* adds 0.15 to what the latency contributes, an absent p95 latency 0.15 to what
\* the error rate contributes; and no pattern at all scores the performance risk
\* of a pattern with neither, 0.3.
AbsentInputsScoreMidRange ==
  /\ RiskScores(risk_args) # {}
  /\ risk_score.present
       => LET tp == risk_args.traffic_pattern
          IN  /\ (~tp.present \/ tp.avg_requests_per_day = NoValue)
                   => risk_score.traffic_risk = 50
              /\ (tp.present /\ tp.error_rate = NoValue)
                   => risk_score.performance_risk
                        = PerformanceRisk([tp EXCEPT !.error_rate = 0]) + 15
              /\ (tp.present /\ tp.p95_latency_ms = NoValue)
                   => risk_score.performance_risk
                        = PerformanceRisk([tp EXCEPT !.p95_latency_ms = 0]) + 15
              /\ ~tp.present
                   => /\ risk_score.performance_risk = 30
                      /\ risk_score.performance_risk
                           = PerformanceRisk([present |-> TRUE, avg_requests_per_day |-> 1,
                                              error_rate |-> NoValue,
                                              p95_latency_ms |-> NoValue])

\* A pattern that holds the request count only has been scored.
ScoredWithoutRates ==
  /\ risk_score.present
  /\ risk_args.traffic_pattern.present
  /\ risk_args.traffic_pattern.error_rate = NoValue
  /\ risk_args.traffic_pattern.p95_latency_ms = NoValue
  /\ risk_score.performance_risk = 30

\* ---------------------------------------------------------------------- C32
\* C32: the documented example -- 12,000,000 requests a day, error rate 0.06, p95
\* latency 2500 ms, auth ["oauth"], criticality CRITICAL -- scores at least 0.75,
\* has level CRITICAL, and is recommended extended traffic mirroring and the
\* smallest canary increments.
IsExampleCall ==
  /\ risk_args.traffic_pattern
       = [present |-> TRUE, avg_requests_per_day |-> 12000000, error_rate |-> 60,
          p95_latency_ms |-> 2500]
  /\ risk_args.auth_methods = <<"oauth">>
  /\ risk_args.business_criticality = "CRITICAL"

ExampleScoresCritical ==
  (risk_score.present /\ IsExampleCall)
    => /\ risk_score.overall_score >= 75
       /\ risk_score.risk_level = "CRITICAL"
       /\ \E i \in DOMAIN risk_score.recommendations :
            risk_score.recommendations[i]
              = "Deploy with extended traffic mirroring (7+ days)"
       /\ \E i \in DOMAIN risk_score.recommendations :
            risk_score.recommendations[i] = "Use smallest canary increments (1%, 3%, 5%)"

\* The example as documented: no dependencies, no custom middleware.
ExampleScored ==
  /\ risk_score.present
  /\ IsExampleCall
  /\ risk_args.num_dependencies = 0
  /\ ~risk_args.has_custom_middleware
  /\ risk_score.overall_score = 100

\* ---------------------------------------------------------------------- C33
\* C33: the cleanup pass deletes the metadata record it comes upon when the
\* primary key of the pair no longer exists, and counts it; it never deletes a
\* primary key, nor the metadata record of a pair whose primary key exists.
CleanupSweepsOrphans ==
  [][(sweep' # sweep /\ sweep.pc \in {"exists", "delete"})
       => /\ (/\ sweep.pc = "exists"
               /\ sweep.key.kind = "info"
               /\ info[sweep.key.pair].exists
               /\ lockKey[sweep.key.pair] = NoLock)
              => sweep'.pc = "delete"
          /\ (sweep.pc = "delete" /\ lockKey[sweep.key.pair] = NoLock)
              => /\ ~info'[sweep.key.pair].exists
                 /\ sweep'.cleaned = sweep.cleaned + 1
          /\ lockKey' = lockKey
          /\ \A k \in Keys : lockKey[k] # NoLock => info'[k] = info[k]]_vars

\* ---------------------------------------------------------------------- C34
\* C34: whatever extra fields a caller passes, a transition that succeeds leaves
\* the record with the target status as status and the status it had before as
\* previous_status.
ExtraFieldsKeepStatus ==
  \A a \in DiscoveredIds, target \in MigrationStatus, reason \in Reasons,
     kwargs \in KwargsChoices :
    LET out == TransitionOutcome(a, target, reason, kwargs)
    IN  out.result = "ok"
          => /\ out.state.status = target
             /\ out.state.previous_status = states[a].status

\* ---------------------------------------------------------------------- C35
\* C35: however the steps of two transition calls on one API interleave, once no
\* call is in progress the record's previous_status is empty or its status is a
\* status the table allows after previous_status.
NoCallInProgress == \A t \in Teams : call[t].pc = "none"

RecordEndsOnAnEdge ==
  NoCallInProgress
    => \A a \in ApiIds :
         states[a].exists
           => \/ states[a].previous_status = NoStatus
              \/ states[a].status \in VALID_TRANSITIONS(states[a].previous_status)

\* ---------------------------------------------------------------------- C36
\* C36: when lock() leaves its scope and the primary key of the pair is by then a
\* lock another team acquired, the release on exit leaves that key and its
\* metadata hash as they are.
ScopeExitSparesOthersLock ==
  [][\A t \in Teams, k \in Keys :
       (/\ pc[t] = "finally" /\ pc'[t] # "finally" /\ arg[t].key = k
        /\ lockKey[k] # NoLock /\ lockKey[k].token # t)
       => /\ lockKey'[k] = lockKey[k]
          /\ info'[k] = info[k]]_vars

\* ---------------------------------------------------------------------- C37
\* C37: when the set-if-absent of lock() finds the primary key held, lock() goes on
\* to raise LockConflictError and returns to its caller without the action having
\* started and without reaching its release; neither of its two steps changes the
\* primary key or the metadata hash of any pair.
ScopeConflictLeavesHolder ==
  [][\A t \in Teams, k \in Keys :
       /\ (/\ pc[t] = "acq_set" /\ pc'[t] # "acq_set" /\ arg[t].scoped
            /\ arg[t].key = k /\ lockKey[k] # NoLock)
          => /\ pc'[t] = "acq_conflict"
             /\ lockKey' = lockKey
             /\ info' = info
       /\ (/\ pc[t] = "acq_conflict" /\ pc'[t] # "acq_conflict" /\ arg[t].scoped
            /\ arg[t].key = k)
          => /\ pc'[t] = "idle"
             /\ ret'.team = t /\ ret'.op = "lock" /\ ret'.key = k
             /\ ~ret'.ok
             /\ ret'.exc = "LockConflictError"
             /\ lockKey' = lockKey
             /\ info' = info]_vars

\* lock() of one team has just raised LockConflictError while the other team is
\* inside its own lock() scope on the pair, its primary key and metadata in place.
ScopeRefusedUnderHolder ==
  \E u \in Teams :
    /\ ret.op = "lock"
    /\ ret.exc = "LockConflictError"
    /\ u # ret.team
    /\ pc[u] = "body"
    /\ arg[u].key = ret.key
    /\ lockKey[ret.key].token = u
    /\ info[ret.key].exists
    /\ info[ret.key].team = u
    /\ pc[ret.team] = "idle"

\* ---------------------------------------------------------------------- C38
\* The statuses a migration can be rolled back from.
RollbackFrom ==
  {"DEPLOYED_MIRROR", "CANARY_5", "CANARY_25", "CANARY_50", "CANARY_75", "COMPLETED"}

\* C38: a step of rollback on an existing record succeeds exactly when the record
\* is in one of the six statuses of RollbackFrom, and then leaves status
\* ROLLED_BACK, previous_status the status before and current_traffic_percentage 0;
\* from any other status it ends in StateTransitionError with the record, its
\* traffic percentage included, as it was.
RollbackExactlyFromLive ==
  [][\A a \in ApiIds :
       (/\ last' = [op |-> "rollback", api_id |-> a, result |-> last'.result]
        /\ <<states, last>>' # <<states, last>>
        /\ states[a].exists)
       => IF states[a].status \in RollbackFrom
            THEN /\ last'.result = "ok"
                 /\ states'[a].status = "ROLLED_BACK"
                 /\ states'[a].previous_status = states[a].status
                 /\ states'[a].current_traffic_percentage = 0
            ELSE /\ last'.result = "StateTransitionError"
                 /\ states'[a] = states[a]]_vars

\* rollback has just been refused on a record that is out of the rollout and still
\* carries a traffic percentage: the percentage is kept.
RollbackRefusedKeepsTraffic ==
  \E a \in ApiIds :
    /\ last = [op |-> "rollback", api_id |-> a, result |-> "StateTransitionError"]
    /\ states[a].status = "FAILED"
    /\ states[a].current_traffic_percentage > 0

\* ---------------------------------------------------------------------- C39
\* The statuses can_transition allows directly after one of the statuses in S.
Successors(S) ==
  {target \in MigrationStatus : \E current \in S : CanTransition(current, target)}

\* The statuses a record can be brought to from the statuses in S by one or more
\* transitions that can_transition allows.
RECURSIVE Closure(_)
Closure(S) ==
  LET more == S \cup Successors(S)
  IN  IF more = S THEN S ELSE Closure(more)
ReachableFrom(status) == Closure(Successors({status}))

\* C39: DECOMMISSIONED is the only status can_transition allows nothing after; from
\* DISCOVERED every one of the 12 statuses can be reached; and whatever status a
\* record of the tracker is in, unless it is DECOMMISSIONED, both COMPLETED and
\* DECOMMISSIONED can still be reached from it.
OnlyDecommissionedIsFinal ==
  /\ {status \in MigrationStatus : Successors({status}) = {}} = {"DECOMMISSIONED"}
  /\ Cardinality(MigrationStatus) = 12
  /\ ReachableFrom("DISCOVERED") = MigrationStatus
  /\ \A a \in ApiIds :
       (states[a].exists /\ states[a].status # "DECOMMISSIONED")
       => {"COMPLETED", "DECOMMISSIONED"} \subseteq ReachableFrom(states[a].status)

\* fail has just moved a record to FAILED, and the migration can still be completed
\* from there.
FailedCanStillComplete ==
  \E a \in ApiIds :
    /\ last = [op |-> "fail", api_id |-> a, result |-> "ok"]
    /\ states[a].status = "FAILED"
    /\ "COMPLETED" \in ReachableFrom("FAILED")

====
